---------------------------- MODULE Spec2Model ----------------------------
(***************************************************************************)
(* Video export pipeline of the frame-overlay tool (UMD build):            *)
(* FFmpegVideoProcessor, FallbackVideoProcessor and the VideoProcessor     *)
(* facade of video-processor-ffmpeg-umd.js, as state machines over the     *)
(* browser's event loop.                                                   *)
(*                                                                         *)
(* Scheduling.  JavaScript runs one task at a time.  An await whose        *)
(* promise is already settled continues in a microtask, before the next    *)
(* task (event, timer, animation frame) starts.  EventLoopIdle guards the  *)
(* tasks; a continuation is its own action.  Calls by the client may come  *)
(* at any point, including from inside a progress callback.                *)
(*                                                                         *)
(* Progress values are percentages: 100 stands for 1.0, 99 for 0.99.       *)
(***************************************************************************)
EXTENDS Integers, Sequences, FiniteSets, TLC

\* Number of processVideo calls (jobs) the client makes; the calls are
\* numbered in the order they are made.
MaxCalls == 2
\* Number of initialize() calls the client makes.
MaxInits == 2
\* Number of initialize() calls the client makes on the VideoProcessor.
MaxVPInits == 1
\* Duration of the source video, in playback ticks.
Duration == 2
\* The calls of onProgress with the value 1.0 are counted up to this number.
MaxOnes == 2

Calls == 1..MaxCalls
Inits == 1..MaxInits
VPInits == 1..MaxVPInits

\* onProgress(1.0)
ProgressOne == 100
\* Math.min(currentTime / duration, 0.99)
ProgressCap == 99
\* Progress ratios the encoder emits during one exec run, in rising order.
EncoderProgress == {50}

\* Source widths and heights range over 1..MaxDim.
MaxDim == 16
\* Significant bits of a floating-point number.  The code computes in IEEE 754
\* double precision, which keeps 53; the model keeps MantissaBits and rounds
\* every operation the same way.
MantissaBits == 12
\* Zoom steps made in PhotoEditor.
MaxZooms == 2
\* The largest side of a square image given to PhotoEditor.
MaxSide == 263
\* The size of a canvas element whose width and height were never set.
DefaultCanvasWidth == 300
DefaultCanvasHeight == 150
\* The reels canvas, 1080x1920.
TargetWidth == 1080
TargetHeight == 1920
\* processingVideo.videoWidth || 1280, processingVideo.videoHeight || 720
DefaultVideoWidth == 1280
DefaultVideoHeight == 720

Min(a, b) == IF a < b THEN a ELSE b

VARIABLES
    \* FFmpegVideoProcessor
    ffmpeg,                   \* "null" | "created" | "loaded" | "terminated"
    isLoaded,
    isProcessing,
    loadingPromise,           \* "null" | "pending" | "true" | "false"
    currentProgressCallback,  \* 0 (null) or the job whose onProgress it is
    loadCount,                \* times _loadFFmpeg was started
    encoderProgress,          \* last ratio emitted by the running exec
    ff,                       \* FFmpegVideoProcessor.processVideo calls
    initCall,                 \* initialize() calls of the client
    \* FallbackVideoProcessor
    fallbackIsProcessing,
    fb,                       \* FallbackVideoProcessor.processVideo calls
    \* VideoProcessor
    useFFmpeg,
    vp,                       \* VideoProcessor.processVideo jobs
    \* VideoFrameProcessor
    vfpIsProcessing,
    vfp,                      \* processVideo, processVideoRealtime and
                              \* processVideoSimple calls
    stopCalled,               \* stopProcessing() has been called
    \* the page: one component that composes frames, and the browser
    compositor,               \* the component in use, "none" before it is made
    source,                   \* <<videoWidth, videoHeight>>, 0 before metadata
    frameImage,               \* "null" | "loading" | "loaded" | "broken"
    frameLoad,                \* "idle" | "pending" | "done" | "failed"
    canvas,                   \* what the last composition did
    isTypeSupported,          \* the types MediaRecorder.isTypeSupported accepts
    editor,                   \* VideoEditor: its encoder and its download
    evp,                      \* EnhancedVideoProcessor: flags, calls and jobs
    photo,                    \* PhotoEditor: imagePosition, and the zooms made
    command,                  \* FFmpegVideoProcessor: build, frame, last command
    app,                      \* App: its state and the FileReader loads in flight
    \* what each job's onProgress has been called with
    progress

ffVars == <<ffmpeg, isLoaded, isProcessing, loadingPromise,
            currentProgressCallback, loadCount, encoderProgress, ff>>
fbVars == <<fallbackIsProcessing, fb>>
vpVars == <<useFFmpeg, vp>>
vfpVars == <<vfpIsProcessing, vfp, stopCalled>>
appVars == <<editor, evp, app, photo, command>>
uiVars == <<compositor, source, frameImage, frameLoad, canvas, isTypeSupported,
            appVars>>
vars == <<ffmpeg, isLoaded, isProcessing, loadingPromise,
          currentProgressCallback, loadCount, encoderProgress, ff, initCall,
          fallbackIsProcessing, fb, useFFmpeg, vp, vfpIsProcessing, vfp,
          stopCalled, compositor, source, frameImage, frameLoad, canvas,
          isTypeSupported, editor, evp, app, photo,
          command, progress>>

-----------------------------------------------------------------------------
(* onProgress *)

NoProgress == 0 - 1

\* The caller's onProgress(v): the last value and how many calls had the
\* value 1.0, counted up to MaxOnes.
Report(p, v) ==
    [p EXCEPT !.last = v,
              !.ones = IF v = ProgressOne THEN Min(@ + 1, MaxOnes) ELSE @]

-----------------------------------------------------------------------------
(* FFmpegVideoProcessor *)

FFAccepted == {"extract", "write", "exec", "read", "final"}
FFRejected == {"rejInit", "rejBusy", "rejError"}
FFSettled  == FFRejected \cup {"resolved"}

\* Calls between acceptance (line 115) and settlement (line 167).
ActiveFF == {c \in Calls : ff[c].pc \in FFAccepted}

\* initialize(), line 25 and 28: the load is started only when the encoder
\* is not loaded and no load was started before.
InitializeStartsLoad_NoMemo == ~isLoaded
InitializeStartsLoad == ~isLoaded /\ loadingPromise = "null"

\* initialize(): what the caller awaits.  "loaded": line 25 returned true;
\* "promise": line 29 or 33, the result of loadingPromise.
InitializeWait == IF isLoaded THEN "loaded" ELSE "promise"

\* initialize() up to its first await (lines 24-33, 36-45).
Initialize ==
    /\ loadingPromise' = IF InitializeStartsLoad THEN "pending" ELSE loadingPromise
    /\ loadCount' = IF InitializeStartsLoad THEN loadCount + 1 ELSE loadCount
    /\ ffmpeg' = IF InitializeStartsLoad THEN "created" ELSE ffmpeg

\* The awaited result of initialize() is available.
InitializeReady(w) == w = "loaded" \/ loadingPromise \in {"true", "false"}
InitializeResult(w) == w = "loaded" \/ loadingPromise = "true"

\* The final onProgress(1.0) of a job is on the stack (line 158).
InCallback == \E c \in Calls : ff[c].pc = "final"

\* A continuation of an await on a settled promise is queued.
MicrotaskPending ==
    \/ \E c \in Calls : ff[c].pc = "init" /\ InitializeReady(ff[c].wait)
    \/ \E i \in Inits : initCall[i].pc = "await" /\ InitializeReady(initCall[i].wait)
    \/ \E j \in Calls : vp[j].pc \in {"ff1", "ff2"} /\ ff[j].pc \in FFSettled
    \/ \E j \in Calls : vp[j].pc = "fb" /\ fb[j].promise \in {"resolved", "rejected"}

\* The next task may start: nothing is on the stack, no microtask is queued.
EventLoopIdle == ~InCallback /\ ~MicrotaskPending

\* _loadFFmpeg, lines 65-72: ffmpeg.load() resolved.
LoadSucceed ==
    /\ EventLoopIdle
    /\ loadingPromise = "pending"
    /\ isLoaded' = TRUE
    /\ loadingPromise' = "true"
    /\ ffmpeg' = "loaded"
    /\ UNCHANGED <<isProcessing, currentProgressCallback, loadCount,
                   encoderProgress, ff, initCall, fbVars, vpVars, progress>>
    /\ UNCHANGED <<vfpVars, uiVars>>

\* _loadFFmpeg, lines 74-78: FFmpeg missing, or toBlobURL or load() failed.
LoadFail ==
    /\ EventLoopIdle
    /\ loadingPromise = "pending"
    /\ isLoaded' = FALSE
    /\ loadingPromise' = "false"
    /\ UNCHANGED <<ffmpeg, isProcessing, currentProgressCallback, loadCount,
                   encoderProgress, ff, initCall, fbVars, vpVars, progress>>
    /\ UNCHANGED <<vfpVars, uiVars>>

\* FFmpegVideoProcessor.processVideo up to its first await (line 107).
\* arrivedBusy: another call was between acceptance and settlement.
FFProcessVideoCall(c) ==
    /\ Initialize
    /\ ff' = [ff EXCEPT ![c] = [pc |-> "init", wait |-> InitializeWait,
                                arrivedBusy |-> ActiveFF # {},
                                checkedBusy |-> FALSE]]
    /\ UNCHANGED <<isLoaded, isProcessing, currentProgressCallback,
                   encoderProgress>>

\* Lines 111-113: the busy rejection is thrown before the try block, so the
\* finally block does not run.
FFBusyReject_InTry ==
    /\ isProcessing' = FALSE
    /\ currentProgressCallback' = 0
FFBusyReject ==
    /\ isProcessing' = isProcessing
    /\ currentProgressCallback' = currentProgressCallback

\* Lines 107-116: the continuation after await initialize().
FFAdmitStep(c) ==
    /\ ff[c].pc = "init"
    /\ InitializeReady(ff[c].wait)
    /\ ~InCallback
    /\ IF ~InitializeResult(ff[c].wait)
       THEN /\ ff' = [ff EXCEPT ![c].pc = "rejInit",
                                ![c].checkedBusy = ActiveFF # {}]
            /\ UNCHANGED <<isProcessing, currentProgressCallback>>
       ELSE IF isProcessing
       THEN /\ ff' = [ff EXCEPT ![c].pc = "rejBusy",
                                ![c].checkedBusy = ActiveFF # {}]
            /\ FFBusyReject
       ELSE /\ ff' = [ff EXCEPT ![c].pc = "extract",
                                ![c].checkedBusy = ActiveFF # {}]
            /\ isProcessing' = TRUE
            /\ currentProgressCallback' = c
    /\ UNCHANGED <<ffmpeg, isLoaded, loadingPromise, loadCount, encoderProgress>>

\* Lines 166-169: finally.
FFFinally ==
    /\ isProcessing' = FALSE
    /\ currentProgressCallback' = 0

\* Lines 122-144: _extractVideoBlob, writeFile or exec resolved.  The encoder
\* calls resolve only on a loaded encoder.
FFAwaitResolvedStep(c) ==
    /\ EventLoopIdle
    /\ ff[c].pc \in {"extract", "write", "exec"}
    /\ ff[c].pc \in {"write", "exec"} => ffmpeg = "loaded"
    /\ ff' = [ff EXCEPT ![c].pc = CASE @ = "extract" -> "write"
                                    [] @ = "write" -> "exec"
                                    [] @ = "exec" -> "read"]
    /\ encoderProgress' = IF ff[c].pc = "write" THEN 0 ELSE encoderProgress
    /\ UNCHANGED <<ffmpeg, isLoaded, isProcessing, loadingPromise,
                   currentProgressCallback, loadCount>>

\* Lines 148-159: readFile resolved; the blob is built and onProgress(1.0)
\* is called.
FFReadResolvedStep(c) ==
    /\ EventLoopIdle
    /\ ff[c].pc = "read"
    /\ ffmpeg = "loaded"
    /\ ff' = [ff EXCEPT ![c].pc = "final"]
    /\ progress' = [progress EXCEPT ![c] = Report(@, ProgressOne)]
    /\ UNCHANGED <<ffmpeg, isLoaded, isProcessing, loadingPromise,
                   currentProgressCallback, loadCount, encoderProgress>>

\* Lines 161, 166-169: onProgress(1.0) returned; return, finally.
FFReturnStep(c) ==
    /\ ff[c].pc = "final"
    /\ ff' = [ff EXCEPT ![c].pc = "resolved"]
    /\ FFFinally
    /\ UNCHANGED <<ffmpeg, isLoaded, loadingPromise, loadCount, encoderProgress>>

\* Lines 163-169: an awaited step rejected; catch rethrows, finally.
FFAwaitRejectedStep(c) ==
    /\ EventLoopIdle
    /\ ff[c].pc \in {"extract", "write", "exec", "read"}
    /\ ff' = [ff EXCEPT ![c].pc = "rejError"]
    /\ FFFinally
    /\ UNCHANGED <<ffmpeg, isLoaded, loadingPromise, loadCount, encoderProgress>>

\* Lines 53-58: the encoder's 'progress' event.
FFProgressEvent(v) ==
    /\ EventLoopIdle
    /\ \E c \in Calls : ff[c].pc = "exec"
    /\ ffmpeg = "loaded"
    /\ v > encoderProgress
    /\ encoderProgress' = v
    /\ progress' = IF currentProgressCallback # 0
                   THEN [progress EXCEPT ![currentProgressCallback] = Report(@, v)]
                   ELSE progress
    /\ UNCHANGED <<ffmpeg, isLoaded, isProcessing, loadingPromise,
                   currentProgressCallback, loadCount, ff, initCall,
                   fbVars, vpVars>>
    /\ UNCHANGED <<vfpVars, uiVars>>

\* terminate(), lines 390-395.
Terminate ==
    /\ isLoaded /\ ffmpeg # "null"
    /\ ffmpeg' = "terminated"
    /\ isLoaded' = FALSE
    /\ UNCHANGED <<isProcessing, loadingPromise, currentProgressCallback,
                   loadCount, encoderProgress, ff, initCall, fbVars, vpVars,
                   progress>>
    /\ UNCHANGED <<vfpVars, uiVars>>

-----------------------------------------------------------------------------
(* Calls on one FFmpegVideoProcessor *)

\* processVideo(videoElement, onProgress, outputFormat) by the client.
FFProcessVideo(c) ==
    /\ ff[c].pc = "none"
    /\ IF c = 1 THEN TRUE ELSE ff[c - 1].pc # "none"
    /\ FFProcessVideoCall(c)
    /\ UNCHANGED <<initCall, fbVars, vpVars, progress>>
    /\ UNCHANGED <<vfpVars, uiVars>>

FFAdmit(c) ==
    /\ FFAdmitStep(c)
    /\ UNCHANGED <<initCall, fbVars, vpVars, progress>>
    /\ UNCHANGED <<vfpVars, uiVars>>

FFAwaitResolved(c) ==
    /\ FFAwaitResolvedStep(c)
    /\ UNCHANGED <<initCall, fbVars, vpVars, progress>>
    /\ UNCHANGED <<vfpVars, uiVars>>

FFReadResolved(c) ==
    /\ FFReadResolvedStep(c)
    /\ UNCHANGED <<initCall, fbVars, vpVars>>
    /\ UNCHANGED <<vfpVars, uiVars>>

FFReturn(c) ==
    /\ FFReturnStep(c)
    /\ UNCHANGED <<initCall, fbVars, vpVars, progress>>
    /\ UNCHANGED <<vfpVars, uiVars>>

FFAwaitRejected(c) ==
    /\ FFAwaitRejectedStep(c)
    /\ UNCHANGED <<initCall, fbVars, vpVars, progress>>
    /\ UNCHANGED <<vfpVars, uiVars>>

\* initialize() by the client, up to its await.  overlap: the load was in
\* flight when the call was made.
InitializeCall(i) ==
    /\ initCall[i].pc = "none"
    /\ IF i = 1 THEN TRUE ELSE initCall[i - 1].pc # "none"
    /\ Initialize
    /\ initCall' = [initCall EXCEPT ![i] = [pc |-> "await",
                                            wait |-> InitializeWait,
                                            overlap |-> loadingPromise = "pending",
                                            result |-> FALSE]]
    /\ UNCHANGED <<isLoaded, isProcessing, currentProgressCallback,
                   encoderProgress, ff, fbVars, vpVars, progress>>
    /\ UNCHANGED <<vfpVars, uiVars>>

\* initialize() returns to the client.
InitializeReturn(i) ==
    /\ initCall[i].pc = "await"
    /\ InitializeReady(initCall[i].wait)
    /\ ~InCallback
    /\ initCall' = [initCall EXCEPT ![i].pc = "returned",
                                    ![i].result = InitializeResult(initCall[i].wait)]
    /\ UNCHANGED <<ffVars, fbVars, vpVars, progress>>
    /\ UNCHANGED <<vfpVars, uiVars>>

-----------------------------------------------------------------------------
(* FallbackVideoProcessor *)

NoFB == [promise |-> "none", error |-> "none", video |-> "none",
         inDom |-> FALSE, ct |-> 0, loop |-> FALSE,
         endedEvt |-> FALSE, timers |-> 0, rec |-> "none", stopEvt |-> FALSE,
         mimeType |-> "none", blobType |-> "none", audio |-> "none",
         stops |-> 0]

\* Audio routing without the catch block: the exception leaves the method.
AudioRouting_Uncaught(before) ==
    [audio |-> IF before = "throws" THEN "failed" ELSE "routed",
     thrown |-> (before = "throws")]
\* Lines 463-482 (part_002 lines 125-161, 363-379 and 556-586): the audio
\* tracks are added to the canvas stream inside try; the catch block logs
\* what was thrown and goes on.  before: "throws" if the browser throws
\* while the audio of this job's video is routed.
AudioRouting(before) ==
    [audio |-> IF before = "throws" THEN "failed" ELSE "routed",
     thrown |-> FALSE]

\* The types lines 490-496 ask MediaRecorder.isTypeSupported about.
WebMTypes == {"video/webm;codecs=vp9,opus", "video/webm;codecs=vp8,opus",
              "video/webm;codecs=h264,opus"}

\* A recorder type that follows the requested container instead.
SelectMimeType_Requested(supported) == "video/mp4"
\* Lines 487-502: recorderOptions.mimeType, VP9 > VP8 > H264 > plain WebM.
SelectMimeType(supported) ==
    IF "video/webm;codecs=vp9,opus" \in supported
    THEN "video/webm;codecs=vp9,opus"
    ELSE IF "video/webm;codecs=vp8,opus" \in supported
    THEN "video/webm;codecs=vp8,opus"
    ELSE IF "video/webm;codecs=h264,opus" \in supported
    THEN "video/webm;codecs=h264,opus"
    ELSE "video/webm"

\* resolve(blob) and reject(error) settle a promise once.
Settle(r, how, why) ==
    IF r.promise = "pending"
    THEN [r EXCEPT !.promise = how, !.error = why]
    ELSE r

\* Line 608: Math.min(processingVideo.currentTime / duration, 0.99).
FrameProgress(r) == Min((r.ct * 100) \div Duration, ProgressCap)

\* Line 556: processingVideo.ended || processingVideo.currentTime >= duration.
StopCondition(r) == r.video = "ended" \/ r.ct >= Duration

\* FallbackVideoProcessor.processVideo up to its first await (lines 421-446).
FallbackProcessVideoCall(c) ==
    IF fallbackIsProcessing
    THEN /\ fb' = [fb EXCEPT ![c] = [NoFB EXCEPT !.promise = "rejected",
                                                 !.error = "busy"]]
         /\ UNCHANGED fallbackIsProcessing
    ELSE /\ fb' = [fb EXCEPT ![c] = [NoFB EXCEPT !.promise = "pending",
                                                 !.video = "loading",
                                                 !.inDom = TRUE]]
         /\ fallbackIsProcessing' = TRUE

\* Lines 649-651: finally.
FallbackFinally == fallbackIsProcessing' = FALSE

\* Lines 443, 448-647: 'loadeddata'; canvas, stream and recorder are set up,
\* the promise is created, recorder.start() and play() are called, and the
\* promise is returned: the finally block runs at that return.
FBLoadedStep(c) ==
    /\ EventLoopIdle
    /\ fb[c].video = "loading"
    /\ LET a == AudioRouting(fb[c].audio)
       IN  fb' = IF a.thrown
                 THEN [fb EXCEPT ![c] = Settle([@ EXCEPT !.video = "ready",
                                                        !.audio = a.audio],
                                               "rejected", "audio")]
                 ELSE [fb EXCEPT ![c].video = "ready", ![c].rec = "recording",
                                 ![c].audio = a.audio,
                                 ![c].mimeType = SelectMimeType(isTypeSupported)]
    /\ FallbackFinally

\* Lines 444, 649-651: the processing video failed to load.
FBLoadErrorStep(c) ==
    /\ EventLoopIdle
    /\ fb[c].video = "loading"
    /\ fb' = [fb EXCEPT ![c] = Settle([@ EXCEPT !.video = "failed"],
                                      "rejected", "load")]
    /\ FallbackFinally

\* Lines 554-616: processFrames, on the job state r and progress record p.
\* tenth: frameCount % 10 === 0 (line 607).  The frames are not counted:
\* any number of them falls into one playback tick, so every frame after
\* the first may or may not be a tenth one.
ProcessFrames(c, r, p, tenth) ==
    IF StopCondition(r)
    THEN /\ fb' = [fb EXCEPT ![c] = [r EXCEPT !.loop = FALSE,
                                              !.timers = @ + 1]]
         /\ progress' = [progress EXCEPT ![c] = Report(p, ProgressOne)]
    ELSE /\ fb' = [fb EXCEPT ![c] = [r EXCEPT !.loop = TRUE]]
         /\ progress' = [progress EXCEPT ![c] =
                           IF tenth THEN Report(p, FrameProgress(r)) ELSE p]

\* Lines 620-628: play() resolved; onProgress(0), then the first
\* processFrames(), with frameCount 0.
FBPlayResolvedStep(c) ==
    /\ EventLoopIdle
    /\ fb[c].video = "ready"
    /\ ProcessFrames(c, [fb[c] EXCEPT !.video = "playing"],
                     Report(progress[c], 0), TRUE)
    /\ UNCHANGED fallbackIsProcessing

\* A play() rejection handler that does not reject the job.
FBPlayRejectedStep_NoReject(c) ==
    /\ EventLoopIdle
    /\ fb[c].video = "ready"
    /\ fb' = [fb EXCEPT ![c].video = "failed"]
    /\ UNCHANGED fallbackIsProcessing
\* Lines 629-632: play() rejected.
FBPlayRejectedStep(c) ==
    /\ EventLoopIdle
    /\ fb[c].video = "ready"
    /\ fb' = [fb EXCEPT ![c] = Settle([@ EXCEPT !.video = "failed"],
                                      "rejected", "play")]
    /\ UNCHANGED fallbackIsProcessing

\* Line 615: the requestAnimationFrame callback.
FBAnimationFrameStep(c) ==
    /\ EventLoopIdle
    /\ fb[c].loop
    /\ \E tenth \in BOOLEAN : ProcessFrames(c, fb[c], progress[c], tenth)
    /\ UNCHANGED fallbackIsProcessing

\* Playback advances by one tick; at the duration the video has ended and
\* its 'ended' event is queued.
FBVideoAdvanceStep(c) ==
    /\ EventLoopIdle
    /\ fb[c].video = "playing"
    /\ fb[c].ct < Duration
    /\ fb' = [fb EXCEPT ![c].ct = @ + 1,
                        ![c].video = IF fb[c].ct + 1 = Duration
                                     THEN "ended" ELSE @,
                        ![c].endedEvt = (fb[c].ct + 1 = Duration)]
    /\ UNCHANGED fallbackIsProcessing

\* Lines 635-646: the 'ended' listener.
FBEndedStep(c) ==
    /\ EventLoopIdle
    /\ fb[c].endedEvt
    /\ fb' = [fb EXCEPT ![c].endedEvt = FALSE, ![c].timers = @ + 1]
    /\ progress' = [progress EXCEPT ![c] = Report(@, ProgressOne)]
    /\ UNCHANGED fallbackIsProcessing

\* A stop timer whose callback does not stop the recorder.
FBTimerStep_NoStop(c) ==
    /\ EventLoopIdle
    /\ fb[c].timers > 0
    /\ fb' = [fb EXCEPT ![c].timers = @ - 1]
    /\ UNCHANGED fallbackIsProcessing
\* Lines 561-563 and 643-645: a stop timer fires; recorder.stop() stops a
\* recording recorder and throws on an inactive one.
FBTimerStep(c) ==
    /\ EventLoopIdle
    /\ fb[c].timers > 0
    /\ fb' = [fb EXCEPT ![c].timers = @ - 1,
                        ![c].stops = @ + 1,
                        ![c].rec = IF @ = "recording" THEN "inactive" ELSE @,
                        ![c].stopEvt = @ \/ fb[c].rec = "recording"]
    /\ UNCHANGED fallbackIsProcessing

\* Lines 520-532: recorder.onstop.
FBRecorderStopStep(c) ==
    /\ EventLoopIdle
    /\ fb[c].stopEvt
    /\ fb' = [fb EXCEPT ![c] = Settle([@ EXCEPT !.stopEvt = FALSE,
                                                !.inDom = FALSE,
                                                !.blobType =
                                                    IF fb[c].promise = "pending"
                                                    THEN fb[c].mimeType
                                                    ELSE @],
                                      "resolved", "none")]
    /\ UNCHANGED fallbackIsProcessing

\* Lines 534-541: recorder.onerror; the recorder becomes inactive and its
\* 'stop' event follows.
FBRecorderErrorStep(c) ==
    /\ EventLoopIdle
    /\ fb[c].rec = "recording"
    /\ fb' = [fb EXCEPT ![c] = Settle([@ EXCEPT !.rec = "inactive",
                                                !.stopEvt = TRUE,
                                                !.inDom = FALSE],
                                      "rejected", "recorder")]
    /\ UNCHANGED fallbackIsProcessing

FBLoaded(c) ==
    /\ FBLoadedStep(c)
    /\ UNCHANGED <<ffVars, initCall, vpVars, progress>>
    /\ UNCHANGED <<vfpVars, uiVars>>

FBLoadError(c) ==
    /\ FBLoadErrorStep(c)
    /\ UNCHANGED <<ffVars, initCall, vpVars, progress>>
    /\ UNCHANGED <<vfpVars, uiVars>>

FBPlayResolved(c) ==
    /\ FBPlayResolvedStep(c)
    /\ UNCHANGED <<ffVars, initCall, vpVars>>
    /\ UNCHANGED <<vfpVars, uiVars>>

FBPlayRejected(c) ==
    /\ FBPlayRejectedStep(c)
    /\ UNCHANGED <<ffVars, initCall, vpVars, progress>>
    /\ UNCHANGED <<vfpVars, uiVars>>

FBAnimationFrame(c) ==
    /\ FBAnimationFrameStep(c)
    /\ UNCHANGED <<ffVars, initCall, vpVars>>
    /\ UNCHANGED <<vfpVars, uiVars>>

FBVideoAdvance(c) ==
    /\ FBVideoAdvanceStep(c)
    /\ UNCHANGED <<ffVars, initCall, vpVars, progress>>
    /\ UNCHANGED <<vfpVars, uiVars>>

FBEnded(c) ==
    /\ FBEndedStep(c)
    /\ UNCHANGED <<ffVars, initCall, vpVars>>
    /\ UNCHANGED <<vfpVars, uiVars>>

FBTimer(c) ==
    /\ FBTimerStep(c)
    /\ UNCHANGED <<ffVars, initCall, vpVars, progress>>
    /\ UNCHANGED <<vfpVars, uiVars>>

FBRecorderStop(c) ==
    /\ FBRecorderStopStep(c)
    /\ UNCHANGED <<ffVars, initCall, vpVars, progress>>
    /\ UNCHANGED <<vfpVars, uiVars>>

FBRecorderError(c) ==
    /\ FBRecorderErrorStep(c)
    /\ UNCHANGED <<ffVars, initCall, vpVars, progress>>
    /\ UNCHANGED <<vfpVars, uiVars>>

\* processVideo(videoElement, onProgress, outputFormat) by the client, on a
\* FallbackVideoProcessor.
FBProcessVideo(c) ==
    /\ fb[c].promise = "none"
    /\ IF c = 1 THEN TRUE ELSE fb[c - 1].promise # "none"
    /\ FallbackProcessVideoCall(c)
    /\ UNCHANGED <<ffVars, initCall, vpVars, progress>>
    /\ UNCHANGED <<vfpVars, uiVars>>

-----------------------------------------------------------------------------
(* VideoProcessor *)

Formats == {"mp4", "webm"}
VPUnsettled == {"ff1", "ff2", "fb"}

NoVP == [pc |-> "none", format |-> "mp4", ffAttempts |-> 0, fbAttempts |-> 0,
         ffError |-> "none", busyWith |-> {}, resultType |-> "none",
         rejection |-> [ffmpeg |-> "none", fallback |-> "none"]]

\* Lines 151-152: the type of the blob the encoder's output is wrapped in.
FFBlobType(fmt) == IF fmt = "mp4" THEN "video/mp4" ELSE "video/webm"

\* Lines 685 and 696: this.useFFmpeg && this.ffmpegProcessor.isReady().
UseFFmpegNow == useFFmpeg /\ isLoaded

\* Lines 688 and 699: the FFmpeg tier is attempted.
VPAttemptFFmpeg(j, r, pc) ==
    /\ FFProcessVideoCall(j)
    /\ vp' = [vp EXCEPT ![j] = [r EXCEPT !.pc = pc, !.ffAttempts = @ + 1]]
    /\ UNCHANGED <<fbVars, useFFmpeg>>

\* Line 707: the real-time tier is attempted.
VPAttemptFallback(j, r) ==
    /\ FallbackProcessVideoCall(j)
    /\ vp' = [vp EXCEPT ![j] = [r EXCEPT !.pc = "fb", !.fbAttempts = @ + 1]]
    /\ UNCHANGED <<ffVars, useFFmpeg>>

\* Lines 689-692 and 700-702: an FFmpeg failure is caught, not rethrown, and
\* useFFmpeg is left as it is.
VPCatch_Disables(j, r) ==
    /\ FallbackProcessVideoCall(j)
    /\ vp' = [vp EXCEPT ![j] = [r EXCEPT !.pc = "fb", !.fbAttempts = @ + 1]]
    /\ useFFmpeg' = FALSE
    /\ UNCHANGED <<ffVars>>
VPCatch(j, r) == VPAttemptFallback(j, r)

\* Line 707: a rejection of the fallback is what the caller gets.
VPRejection_Aggregated(j) == [ffmpeg |-> vp[j].ffError, fallback |-> fb[j].error]
VPRejection(j) == [ffmpeg |-> "none", fallback |-> fb[j].error]

\* VideoProcessor.processVideo up to its first await (lines 683-707).
\* busyWith: the jobs that had not settled when this one was requested.
VPProcessVideo(j, fmt) ==
    /\ vp[j].pc = "none"
    /\ IF j = 1 THEN TRUE ELSE vp[j - 1].pc # "none"
    /\ LET r == [vp[j] EXCEPT !.format = fmt,
                              !.busyWith = {k \in Calls : vp[k].pc \in VPUnsettled}]
       IN  IF fmt = "mp4" /\ UseFFmpegNow
           THEN VPAttemptFFmpeg(j, r, "ff1")
           ELSE IF UseFFmpegNow
           THEN VPAttemptFFmpeg(j, r, "ff2")
           ELSE VPAttemptFallback(j, r)
    /\ UNCHANGED <<initCall, progress>>
    /\ UNCHANGED <<vfpVars, uiVars>>

\* Lines 688-703: the first FFmpeg attempt (format mp4) settled.
VPAfterFirstFFmpeg(j) ==
    /\ vp[j].pc = "ff1"
    /\ ff[j].pc \in FFSettled
    /\ ~InCallback
    /\ IF ff[j].pc = "resolved"
       THEN /\ vp' = [vp EXCEPT ![j].pc = "resolved",
                                 ![j].resultType = FFBlobType(vp[j].format)]
            /\ UNCHANGED <<ffVars, fbVars, useFFmpeg>>
       ELSE LET r == [vp[j] EXCEPT !.ffError = ff[j].pc]
            IN  IF UseFFmpegNow
                THEN VPAttemptFFmpeg(j, r, "ff2")
                ELSE VPCatch(j, r)
    /\ UNCHANGED <<initCall, progress>>
    /\ UNCHANGED <<vfpVars, uiVars>>

\* Lines 699-707: the FFmpeg attempt of the second block settled.
VPAfterSecondFFmpeg(j) ==
    /\ vp[j].pc = "ff2"
    /\ ff[j].pc \in FFSettled
    /\ ~InCallback
    /\ IF ff[j].pc = "resolved"
       THEN /\ vp' = [vp EXCEPT ![j].pc = "resolved",
                                 ![j].resultType = FFBlobType(vp[j].format)]
            /\ UNCHANGED <<ffVars, fbVars, useFFmpeg>>
       ELSE VPCatch(j, [vp[j] EXCEPT !.ffError = ff[j].pc])
    /\ UNCHANGED <<initCall, progress>>
    /\ UNCHANGED <<vfpVars, uiVars>>

\* Lines 707-715: the fallback's promise settled.
VPAfterFallback(j) ==
    /\ vp[j].pc = "fb"
    /\ fb[j].promise \in {"resolved", "rejected"}
    /\ ~InCallback
    /\ vp' = [vp EXCEPT ![j].pc = fb[j].promise,
                        ![j].resultType = fb[j].blobType,
                        ![j].rejection = IF fb[j].promise = "rejected"
                                         THEN VPRejection(j) ELSE @]
    /\ UNCHANGED <<ffVars, fbVars, useFFmpeg, initCall, progress>>
    /\ UNCHANGED <<vfpVars, uiVars>>

\* VideoProcessor.initialize, line 667: ffmpegProcessor.initialize() is
\* called.
VPInitialize(i) ==
    /\ initCall[i].pc = "none"
    /\ IF i = 1 THEN TRUE ELSE initCall[i - 1].pc # "none"
    /\ Initialize
    /\ initCall' = [initCall EXCEPT ![i] = [pc |-> "await",
                                            wait |-> InitializeWait,
                                            overlap |-> loadingPromise = "pending",
                                            result |-> FALSE]]
    /\ UNCHANGED <<isLoaded, isProcessing, currentProgressCallback,
                   encoderProgress, ff, fbVars, vpVars, progress>>
    /\ UNCHANGED <<vfpVars, uiVars>>

\* VideoProcessor.initialize, lines 667-673.
VPInitializeReturn(i) ==
    /\ initCall[i].pc = "await"
    /\ InitializeReady(initCall[i].wait)
    /\ ~InCallback
    /\ initCall' = [initCall EXCEPT ![i].pc = "returned",
                                    ![i].result = InitializeResult(initCall[i].wait)]
    /\ useFFmpeg' = IF InitializeResult(initCall[i].wait) THEN useFFmpeg ELSE FALSE
    /\ UNCHANGED <<ffVars, fbVars, vp, progress>>
    /\ UNCHANGED <<vfpVars, uiVars>>

-----------------------------------------------------------------------------
(* VideoFrameProcessor (part_002) *)

\* processVideo, processVideoRealtime, processVideoSimple.
Methods == {"video", "realtime", "simple"}

\* drew: this.processFrame has composited a frame of the job.
\* stoppedBy: the code path whose recorder.stop() (or the recorder error
\* that) ended the recording; early: the stop condition did not hold then.
NoVFP == [m |-> "none", promise |-> "none", error |-> "none",
          video |-> "none", inDom |-> FALSE, ct |-> 0, loop |-> FALSE,
          listening |-> FALSE, guard |-> FALSE, timers |-> 0,
          endedEvt |-> FALSE, rec |-> "none", stopEvt |-> FALSE,
          stoppedBy |-> "none", early |-> FALSE, audio |-> "none",
          stops |-> 0, drew |-> FALSE]

\* Lines 275, 444 and 644: the video has ended or currentTime >= duration.
VFPStopCondition(r) == r.video = "ended" \/ r.ct >= Duration

\* mediaRecorder.stop(): stops a recording recorder, whose 'stop' event
\* follows; throws on an inactive one.
RecorderStop(r, by) ==
    IF r.rec = "recording"
    THEN [r EXCEPT !.rec = "inactive", !.stopEvt = TRUE, !.stoppedBy = by,
                   !.early = ~VFPStopCondition(r), !.stops = @ + 1]
    ELSE [r EXCEPT !.stops = @ + 1]

\* Math.min(currentTime / duration, 1), lines 269, 458 and 668.
VFPProgress(r) == Min((r.ct * 100) \div Duration, ProgressOne)

\* Lines 290-295 and 466-471 (and 247-250, 277-280, 445-448):
\* cancelAnimationFrame and clearTimeout.
Cleanup_KeepTimeout(r) == [r EXCEPT !.loop = FALSE]
Cleanup(r) == [r EXCEPT !.loop = FALSE, !.guard = FALSE]

\* The busy flag once the pending promise has been returned: the methods
\* have a catch block (lines 314-317, 500-503, 712-716), not a finally.
VFPFlagAfterSetup_Finally == FALSE
VFPFlagAfterSetup == vfpIsProcessing

\* Lines 90-116, 328-355 and 513-541, up to the await of the load; the
\* hidden video of the realtime and simple methods is appended to the body.
VFPCall(c, m) ==
    /\ vfp[c].m = "none"
    /\ IF c = 1 THEN TRUE ELSE vfp[c - 1].m # "none"
    /\ IF vfpIsProcessing
       THEN /\ vfp' = [vfp EXCEPT ![c] = [NoVFP EXCEPT !.m = m,
                                                  !.promise = "rejected",
                                                  !.error = "busy"]]
            /\ UNCHANGED vfpIsProcessing
       ELSE /\ vfp' = [vfp EXCEPT ![c] = [NoVFP EXCEPT !.m = m,
                                                  !.promise = "pending",
                                                  !.video = "loading",
                                                  !.inDom = (m # "video")]]
            /\ vfpIsProcessing' = TRUE
    /\ UNCHANGED <<uiVars, ffVars, initCall, fbVars, vpVars, stopCalled, progress>>

\* Lines 118, 357, 543-546 and the catch blocks: the video failed to load.
VFPLoadError(c) ==
    /\ vfp[c].video = "loading"
    /\ vfp' = [vfp EXCEPT ![c] = Settle([@ EXCEPT !.video = "failed"],
                                        "rejected", "load")]
    /\ vfpIsProcessing' = FALSE
    /\ UNCHANGED <<uiVars, ffVars, initCall, fbVars, vpVars, stopCalled, progress>>

\* Lines 117-312, 356-498, 542-710: the video loaded; the recorder is
\* created and started, the timeout guard is armed (processVideo and
\* processVideoRealtime), the 'loadeddata' listener is added (processVideo)
\* or play() is called, and the pending promise is returned.
VFPLoaded(c) ==
    /\ vfp[c].video = "loading"
    /\ LET a == AudioRouting(vfp[c].audio)
       IN  IF a.thrown
           THEN /\ vfp' = [vfp EXCEPT ![c] = Settle([@ EXCEPT !.video = "ready",
                                                             !.audio = a.audio],
                                                    "rejected", "audio")]
                /\ vfpIsProcessing' = FALSE
           ELSE /\ vfp' = [vfp EXCEPT ![c].video = "ready",
                                      ![c].rec = "recording",
                                      ![c].audio = a.audio,
                                      ![c].guard = (vfp[c].m # "simple"),
                                      ![c].listening = (vfp[c].m = "video")]
                /\ vfpIsProcessing' = VFPFlagAfterSetup
    /\ UNCHANGED <<uiVars, ffVars, initCall, fbVars, vpVars, stopCalled, progress>>

\* stopProcessing(), lines 722-724.
VFPStopProcessing ==
    /\ vfpIsProcessing' = FALSE
    /\ stopCalled' = TRUE
    /\ UNCHANGED <<uiVars, ffVars, initCall, fbVars, vpVars, vfp, progress>>

\* processVideo, lines 298-303: the 'loadeddata' listener added after the
\* load runs if the event is dispatched again; the frame loop is scheduled
\* and the clock (startTime) starts.
VFPLoadedData(c) ==
    /\ vfp[c].listening
    /\ vfp' = [vfp EXCEPT ![c].listening = FALSE, ![c].loop = TRUE,
                          ![c].video = "playing"]
    /\ UNCHANGED <<uiVars, ffVars, initCall, fbVars, vpVars, vfpIsProcessing,
                   stopCalled, progress>>

\* processVideo composites when the frame clock has advanced by 1 / fps
\* (line 260); the other methods composite in every callback that goes on.
\* The frame callbacks: processFrame (lines 245-287), updateFrame of
\* processVideoRealtime (lines 443-463) and of processVideoSimple (lines
\* 643-675), on the job state r and progress record p.  due: the progress
\* interval of line 666 has passed.
VFPFrameBody(c, r, p, due) ==
    IF r.m = "simple"
    THEN IF ~vfpIsProcessing \/ VFPStopCondition(r)
         THEN /\ vfp' = [vfp EXCEPT ![c] = [r EXCEPT !.loop = FALSE,
                                                    !.timers = @ + 1]]
              /\ progress' = [progress EXCEPT ![c] = Report(p, ProgressOne)]
         ELSE /\ vfp' = [vfp EXCEPT ![c] = [r EXCEPT !.loop = TRUE,
                                                    !.drew = TRUE]]
              /\ progress' = [progress EXCEPT ![c] =
                                IF due THEN Report(p, VFPProgress(r)) ELSE p]
    ELSE IF r.m = "realtime"
    THEN IF ~vfpIsProcessing \/ r.video = "ended"
         THEN /\ vfp' = [vfp EXCEPT ![c] = RecorderStop(Cleanup(r), "frame")]
              /\ progress' = [progress EXCEPT ![c] = p]
         ELSE /\ vfp' = [vfp EXCEPT ![c] = [r EXCEPT !.loop = TRUE,
                                                    !.drew = TRUE]]
              /\ progress' = [progress EXCEPT ![c] = Report(p, VFPProgress(r))]
    ELSE IF ~vfpIsProcessing
         THEN /\ vfp' = [vfp EXCEPT ![c] = RecorderStop(Cleanup(r), "frame")]
              /\ progress' = [progress EXCEPT ![c] = p]
         ELSE /\ vfp' = [vfp EXCEPT ![c] =
                           LET d == [r EXCEPT !.drew = @ \/ r.ct > 0]
                           IN  IF r.ct >= Duration
                               THEN RecorderStop(Cleanup(d), "frame")
                               ELSE [d EXCEPT !.loop = TRUE]]
              /\ progress' = [progress EXCEPT ![c] = Report(p, VFPProgress(r))]

\* Lines 492-494 and 693-703: play() resolved; processVideoSimple reports
\* 0; the first updateFrame() runs.
VFPPlayResolved(c) ==
    /\ vfp[c].m \in {"realtime", "simple"}
    /\ vfp[c].video = "ready"
    /\ VFPFrameBody(c, [vfp[c] EXCEPT !.video = "playing"],
                    IF vfp[c].m = "simple" THEN Report(progress[c], 0)
                    ELSE progress[c], TRUE)
    /\ UNCHANGED <<uiVars, ffVars, initCall, fbVars, vpVars, vfpIsProcessing, stopCalled>>

\* Lines 494-497: processVideoRealtime cleans up and rejects.  Lines
\* 704-709: processVideoSimple removes the video, clears the flag and
\* rejects.
VFPPlayRejected(c) ==
    /\ vfp[c].m \in {"realtime", "simple"}
    /\ vfp[c].video = "ready"
    /\ LET r == [vfp[c] EXCEPT !.video = "failed"]
       IN  IF r.m = "realtime"
           THEN /\ vfp' = [vfp EXCEPT ![c] = Settle(Cleanup(r), "rejected", "play")]
                /\ UNCHANGED vfpIsProcessing
           ELSE /\ vfp' = [vfp EXCEPT ![c] = Settle([r EXCEPT !.inDom = FALSE],
                                                    "rejected", "play")]
                /\ vfpIsProcessing' = FALSE
    /\ UNCHANGED <<uiVars, ffVars, initCall, fbVars, vpVars, stopCalled, progress>>

\* The requestAnimationFrame callback.
VFPAnimationFrame(c) ==
    /\ vfp[c].loop
    /\ \E due \in BOOLEAN : VFPFrameBody(c, vfp[c], progress[c], due)
    /\ UNCHANGED <<uiVars, ffVars, initCall, fbVars, vpVars, vfpIsProcessing, stopCalled>>

\* One tick of playback (realtime, simple) or of the wall clock since
\* startTime (processVideo, line 256); a played video ends at its duration
\* and its 'ended' event is queued.
VFPAdvance(c) ==
    /\ vfp[c].video = "playing"
    /\ vfp[c].ct < Duration
    /\ LET end == vfp[c].ct + 1 = Duration /\ vfp[c].m # "video"
       IN  vfp' = [vfp EXCEPT ![c].ct = @ + 1,
                              ![c].video = IF end THEN "ended" ELSE @,
                              ![c].endedEvt = end]
    /\ UNCHANGED <<uiVars, ffVars, initCall, fbVars, vpVars, vfpIsProcessing,
                   stopCalled, progress>>

\* onended: lines 477-481 (cleanup, recorder.stop()) and lines 683-691
\* (cancelAnimationFrame, stop after 200 ms).
VFPEnded(c) ==
    /\ vfp[c].endedEvt
    /\ LET r == [vfp[c] EXCEPT !.endedEvt = FALSE]
       IN  vfp' = [vfp EXCEPT ![c] =
                     IF r.m = "realtime"
                     THEN RecorderStop(Cleanup(r), "ended")
                     ELSE [r EXCEPT !.loop = FALSE, !.timers = @ + 1]]
    /\ UNCHANGED <<uiVars, ffVars, initCall, fbVars, vpVars, vfpIsProcessing,
                   stopCalled, progress>>

\* Lines 656-658 and 688-690: a delayed recorder.stop().
VFPTimer(c) ==
    /\ vfp[c].timers > 0
    /\ vfp' = [vfp EXCEPT ![c] = RecorderStop([@ EXCEPT !.timers = @ - 1],
                                              "timer")]
    /\ UNCHANGED <<uiVars, ffVars, initCall, fbVars, vpVars, vfpIsProcessing,
                   stopCalled, progress>>

\* Lines 235-243 and 433-441: the timeout guard, (duration + 10) seconds
\* after it was armed.  How far playback or the frame clock has come by then
\* is the environment's (a stalled video, throttled animation frames, a
\* 'loadeddata' event that is not dispatched again), so the guard may fire
\* whenever it is armed.
VFPGuard(c) ==
    /\ vfp[c].guard
    /\ vfp' = [vfp EXCEPT ![c] = RecorderStop(Cleanup(@), "guard")]
    /\ vfpIsProcessing' = FALSE
    /\ UNCHANGED <<uiVars, ffVars, initCall, fbVars, vpVars, stopCalled, progress>>

\* mediaRecorder.onstop, lines 209-219, 417-425 and 616-629.  The realtime
\* and simple methods first remove the hidden video from the body, which
\* throws when it is no longer there.
VFPRecorderStop(c) ==
    /\ vfp[c].stopEvt
    /\ IF vfp[c].m # "video" /\ ~vfp[c].inDom
       THEN /\ vfp' = [vfp EXCEPT ![c].stopEvt = FALSE]
            /\ UNCHANGED vfpIsProcessing
       ELSE /\ vfp' = [vfp EXCEPT ![c] = Settle([@ EXCEPT !.stopEvt = FALSE,
                                                         !.inDom = FALSE],
                                                "resolved", "none")]
            /\ vfpIsProcessing' = FALSE
    /\ UNCHANGED <<uiVars, ffVars, initCall, fbVars, vpVars, stopCalled, progress>>

\* mediaRecorder.onerror, lines 306-311, 484-490 and 631-636; the recorder
\* becomes inactive and its 'stop' event follows.  processVideo and
\* processVideoRealtime clean up; the realtime and simple methods remove
\* the hidden video, which throws when it is no longer there.
VFPRecorderError(c) ==
    /\ vfp[c].rec = "recording"
    /\ LET r == [vfp[c] EXCEPT !.rec = "inactive", !.stopEvt = TRUE,
                               !.stoppedBy = "error",
                               !.early = ~VFPStopCondition(vfp[c])]
           q == IF r.m = "simple" THEN r ELSE Cleanup(r)
       IN  IF q.m # "video" /\ ~q.inDom
           THEN /\ vfp' = [vfp EXCEPT ![c] = q]
                /\ UNCHANGED vfpIsProcessing
           ELSE /\ vfp' = [vfp EXCEPT ![c] = Settle([q EXCEPT !.inDom = FALSE],
                                                    "rejected", "recorder")]
                /\ vfpIsProcessing' = FALSE
    /\ UNCHANGED <<uiVars, ffVars, initCall, fbVars, vpVars, stopCalled, progress>>

-----------------------------------------------------------------------------
(* Compositors: VideoFrameProcessor.processFrame, EnhancedVideoProcessor
   .processFrame, the FallbackVideoProcessor frame loop, VideoEditor and
   PhotoEditor.  A length is a fraction <<numerator, denominator>> with a
   positive denominator, and every arithmetic operation of the code rounds
   its exact result to the nearest floating-point number. *)

Compositors == {"VideoFrameProcessor", "EnhancedVideoProcessor",
                "FallbackVideoProcessor", "VideoEditor", "PhotoEditor"}
\* The compositors that set this.frameImage before the image has loaded.
EagerFrameImage == {"VideoFrameProcessor", "EnhancedVideoProcessor"}
Dims == 1..MaxDim

RatLeq(a, b) == a[1] * b[2] <= b[1] * a[2]
RatLess(a, b) == a[1] * b[2] < b[1] * a[2]
RatEq(a, b) == a[1] * b[2] = b[1] * a[2]
RatAdd(a, b) == <<a[1] * b[2] + b[1] * a[2], a[2] * b[2]>>
RatSub(a, b) == <<a[1] * b[2] - b[1] * a[2], a[2] * b[2]>>
RatMul(a, b) == <<a[1] * b[1], a[2] * b[2]>>
\* a / b for b > 0.
RatDiv(a, b) == <<a[1] * b[2], a[2] * b[1]>>
Whole(n) == <<n, 1>>
Abs(n) == IF n < 0 THEN 0 - n ELSE n

RECURSIVE Pow2(_)
Pow2(k) == IF k = 0 THEN 1 ELSE 2 * Pow2(k - 1)

\* n / d rounded to an integer, ties to even.
RoundHalfEven(n, d) ==
    LET q == n \div d
        r == n % d
    IN  IF 2 * r > d THEN q + 1
        ELSE IF 2 * r = d THEN q + (q % 2)
        ELSE q

\* n / d brought into [2^(MantissaBits-1), 2^MantissaBits) by powers of
\* two, for n > 0: <<n2, d2, sn, sd>> with n2 / d2 = (n / d) * (sn / sd).
RECURSIVE Scale(_, _, _, _)
Scale(n, d, sn, sd) ==
    IF n \div d < Pow2(MantissaBits - 1)
    THEN IF d % 2 = 0 THEN Scale(n, d \div 2, 2 * sn, sd)
         ELSE Scale(2 * n, d, 2 * sn, sd)
    ELSE IF n \div d >= Pow2(MantissaBits)
    THEN IF n % 2 = 0 THEN Scale(n \div 2, d, sn, 2 * sd)
         ELSE Scale(n, 2 * d, sn, 2 * sd)
    ELSE <<n, d, sn, sd>>

\* A fraction with a power of two as denominator, in lowest terms.
RECURSIVE Reduce2(_)
Reduce2(q) ==
    IF q[2] > 1 /\ q[1] % 2 = 0 THEN Reduce2(<<q[1] \div 2, q[2] \div 2>>)
    ELSE q

\* The floating-point number nearest to the fraction q (round to nearest,
\* ties to even): the result of one arithmetic operation of the code.
Fl(q) ==
    IF q[1] = 0 THEN Whole(0)
    ELSE LET n == Abs(q[1])
             sc == Scale(n, q[2], 1, 1)
             m == RoundHalfEven(sc[1], sc[2])
             sign == IF q[1] < 0 THEN 0 - 1 ELSE 1
             r == Reduce2(<<sign * m, sc[3]>>)
         IN  Reduce2(<<r[1] * sc[4], r[2]>>)

NoRect == [drawWidth |-> Whole(0), drawHeight |-> Whole(0),
           offsetX |-> Whole(0), offsetY |-> Whole(0)]
\* A canvas as document.createElement('canvas') makes it (part_002 line 8):
\* nothing drawn, and the default size of a canvas element.
NoCanvas == [by |-> "none", video |-> FALSE, rect |-> NoRect,
             overlay |-> FALSE, threw |-> FALSE,
             width |-> DefaultCanvasWidth, height |-> DefaultCanvasHeight]

\* part_002 line 48: videoAspect = videoWidth / videoHeight.
VideoAspect(w, h) == Fl(<<w, h>>)
\* part_002 line 49: targetAspect = targetWidth / targetHeight.
TargetAspect == Fl(<<TargetWidth, TargetHeight>>)

\* The opposite comparison: videoAspect < targetAspect.
WiderThanTarget_Narrower(w, h) == RatLess(VideoAspect(w, h), TargetAspect)
\* part_002 line 54: videoAspect > targetAspect.
WiderThanTarget(w, h) == RatLess(TargetAspect, VideoAspect(w, h))

\* (target - drawn) / 2, part_002 lines 58 and 65.
Offset(target, drawn) ==
    Fl(RatDiv(Fl(RatSub(Whole(target), drawn)), Whole(2)))

\* part_002 lines 51-66 (part_004 lines 121-135, umd lines 578-592): the
\* rectangle the source is drawn into, for a w x h source.
FillRect(w, h) ==
    IF WiderThanTarget(w, h)
    THEN LET drawWidth == Fl(RatMul(Whole(TargetHeight), VideoAspect(w, h)))
         IN  [drawHeight |-> Whole(TargetHeight),
              drawWidth |-> drawWidth,
              offsetX |-> Offset(TargetWidth, drawWidth),
              offsetY |-> Whole(0)]
    ELSE LET drawHeight == Fl(RatDiv(Whole(TargetWidth), VideoAspect(w, h)))
         IN  [drawWidth |-> Whole(TargetWidth),
              drawHeight |-> drawHeight,
              offsetX |-> Whole(0),
              offsetY |-> Offset(TargetHeight, drawHeight)]

\* umd lines 572-573: videoWidth || 1280, videoHeight || 720.
OrDefault(v, d) == IF v = 0 THEN d ELSE v

\* A preview with the library compositor's geometry.
FitRect_Fill(w, h) == FillRect(w, h)
\* part_001 lines 116-133, VideoEditor.drawFrame: the rectangle the preview
\* draws the source into.
FitRect(w, h) ==
    IF WiderThanTarget(w, h)
    THEN LET drawHeight == Fl(RatDiv(Whole(TargetWidth), VideoAspect(w, h)))
         IN  [drawWidth |-> Whole(TargetWidth),
              drawHeight |-> drawHeight,
              offsetX |-> Whole(0),
              offsetY |-> Offset(TargetHeight, drawHeight)]
    ELSE LET drawWidth == Fl(RatMul(Whole(TargetHeight), VideoAspect(w, h)))
         IN  [drawHeight |-> Whole(TargetHeight),
              drawWidth |-> drawWidth,
              offsetX |-> Offset(TargetWidth, drawWidth),
              offsetY |-> Whole(0)]

\* n / d rounded to the nearest integer.
Round(n, d) == (2 * n + d) \div (2 * d)
\* An offset rounded down to the chroma grid of the padded picture.
Even(x) == x - (x % 2)

\* part_001 line 299, the filter graph of the export:
\* scale=1080:1920:force_original_aspect_ratio=decrease scales the source
\* into the box, to whole pixels; pad=1080:1920:(ow-iw)/2:(oh-ih)/2:white
\* places it.
ExportRect(w, h) ==
    LET iw == Min(Round(TargetHeight * w, h), TargetWidth)
        ih == Min(Round(TargetWidth * h, w), TargetHeight)
    IN  [drawWidth |-> Whole(iw), drawHeight |-> Whole(ih),
         offsetX |-> Whole(Even((TargetWidth - iw) \div 2)),
         offsetY |-> Whole(Even((TargetHeight - ih) \div 2))]

\* A composition that leaves the size of the canvas as it is.
CanvasSize_Kept(by) == <<canvas.width, canvas.height>>
\* The size of the canvas when `by` composes: processFrame (part_002 lines
\* 40-41, part_004 lines 112-113), the fallback's processVideo (umd lines
\* 453-454) and drawFrame (part_001 lines 110-111) set it; drawCanvas does
\* not.
CanvasSize(by) ==
    IF by = "drawCanvas" THEN <<canvas.width, canvas.height>>
    ELSE <<TargetWidth, TargetHeight>>

\* ctx.drawImage(video, ...) followed by the overlay step, for the value img
\* of the frame image: null is skipped by `if (this.frameImage)`, an image
\* that has not loaded yet draws nothing, a loaded one is drawn, and
\* drawImage throws InvalidStateError on a broken one.
Compose(by, rect, img) ==
    [by |-> by, video |-> TRUE, rect |-> rect,
     overlay |-> (img = "loaded"), threw |-> (img = "broken"),
     width |-> CanvasSize(by)[1], height |-> CanvasSize(by)[2]]

\* A composition that returned before it drew anything, and before it set
\* the size of the canvas (part_001 lines 105-111 and 487-489).
Skipped(by) ==
    [NoCanvas EXCEPT !.by = by, !.width = canvas.width,
                     !.height = canvas.height]

\* The canvas a new compositor starts with: PhotoEditor's has the size of
\* its JSX attributes (part_001 lines 688-692).
NewCanvas(k) ==
    IF k = "PhotoEditor"
    THEN [NoCanvas EXCEPT !.width = TargetWidth, !.height = TargetHeight]
    ELSE NoCanvas

\* new VideoFrameProcessor(), new EnhancedVideoProcessor(),
\* new FallbackVideoProcessor(), or the mount of a component.
Construct(k) ==
    /\ compositor = "none"
    /\ compositor' = k
    /\ canvas' = NewCanvas(k)
    /\ UNCHANGED <<source, frameImage, frameLoad, isTypeSupported, appVars>>
    /\ UNCHANGED <<ffVars, initCall, fbVars, vpVars, vfpVars, progress>>

\* part_001 lines 107-140: drawFrame.
DrawFrameResult(w, h) ==
    IF frameImage = "null"
    THEN Skipped("drawFrame")
    ELSE Compose("drawFrame", FitRect(w, h), frameImage)

\* The source reports its size: 'loadedmetadata' of the video, or onload of
\* the user's image in PhotoEditor.  part_001 lines 155-165: VideoEditor
\* draws the first frame if the frame image has loaded.
LoadedMetadata(w, h) ==
    /\ compositor # "none"
    /\ source = <<0, 0>>
    /\ source' = <<w, h>>
    /\ canvas' = IF compositor = "VideoEditor" /\ frameLoad = "done"
                 THEN DrawFrameResult(w, h)
                 ELSE canvas
    /\ UNCHANGED <<compositor, frameImage, frameLoad, isTypeSupported, appVars>>
    /\ UNCHANGED <<ffVars, initCall, fbVars, vpVars, vfpVars, progress>>

\* loadFrame(framePath) (part_002 lines 19-26, part_004 lines 88-99, umd
\* lines 407-420) and the frame image effects of VideoEditor (part_001 lines
\* 87-100) and PhotoEditor (lines 533-540, after the user's image loaded).
LoadFrame ==
    /\ compositor # "none"
    /\ compositor = "PhotoEditor" => source # <<0, 0>>
    /\ frameLoad = "idle"
    /\ frameLoad' = "pending"
    /\ frameImage' = IF compositor \in EagerFrameImage THEN "loading" ELSE "null"
    /\ UNCHANGED <<compositor, source, canvas, isTypeSupported, appVars>>
    /\ UNCHANGED <<ffVars, initCall, fbVars, vpVars, vfpVars, progress>>

\* part_001 lines 521-531: the user's image has loaded in PhotoEditor, here
\* a square one of side s.
SquareImageLoaded(s) ==
    /\ compositor = "PhotoEditor"
    /\ LoadedMetadata(s, s)

\* part_001 line 476: useState({ x: 0, y: 0, scale: 1 }).
NoPhoto == [position |-> [x |-> Whole(0), y |-> Whole(0), scale |-> Whole(1)],
            zooms |-> 0, exported |-> <<0, 0>>]

\* The scale of the other branch in each case: the image fills the canvas.
InitialPosition_Fill(w, h) ==
    [x |-> Fl(<<TargetWidth, 2>>),
     y |-> Fl(<<TargetHeight, 2>>),
     scale |-> IF RatLess(TargetAspect, Fl(<<w, h>>))
               THEN Fl(<<TargetHeight, h>>)
               ELSE Fl(<<TargetWidth, w>>)]
\* part_001 lines 545-560 and 643-658: the scale that fits a w x h image
\* into the canvas, and the canvas centre.
InitialPosition(w, h) ==
    [x |-> Fl(<<TargetWidth, 2>>),
     y |-> Fl(<<TargetHeight, 2>>),
     scale |-> IF RatLess(TargetAspect, Fl(<<w, h>>))
               THEN Fl(<<TargetWidth, w>>)
               ELSE Fl(<<TargetHeight, h>>)]

\* part_001 lines 497-510: the rectangle drawCanvas draws a w x h image
\* into, for the imagePosition at.
PhotoRect(w, h, at) ==
    LET scaledWidth == Fl(RatMul(Whole(w), at.scale))
        scaledHeight == Fl(RatMul(Whole(h), at.scale))
    IN  [drawWidth |-> scaledWidth,
         drawHeight |-> scaledHeight,
         offsetX |-> Fl(RatSub(at.x, Fl(RatDiv(scaledWidth, Whole(2))))),
         offsetY |-> Fl(RatSub(at.y, Fl(RatDiv(scaledHeight, Whole(2)))))]

\* part_001 lines 572-576: the effect that redraws the canvas when
\* imagePosition has changed, once the images have loaded.
Redraw(at) ==
    IF frameLoad = "done"
    THEN Compose("drawCanvas", PhotoRect(source[1], source[2], at), frameImage)
    ELSE canvas

\* A change of imagePosition.scale by a zoom button, and the redraw.
Zoom(scale) ==
    /\ compositor = "PhotoEditor"
    /\ photo.zooms < MaxZooms
    /\ photo' = [photo EXCEPT !.position.scale = scale, !.zooms = @ + 1]
    /\ canvas' = Redraw([photo.position EXCEPT !.scale = scale])
    /\ UNCHANGED <<compositor, source, frameImage, frameLoad, isTypeSupported,
                   editor, evp, app, command>>
    /\ UNCHANGED <<ffVars, initCall, fbVars, vpVars, vfpVars, progress>>

\* part_001 lines 626-631: Math.min(prev.scale * 1.1, 3).
ZoomIn ==
    LET scaled == Fl(RatMul(photo.position.scale, Fl(<<11, 10>>)))
    IN  Zoom(IF RatLess(scaled, Whole(3)) THEN scaled ELSE Whole(3))

\* part_001 lines 633-638: Math.max(prev.scale * 0.9, 0.1).
ZoomOut ==
    LET scaled == Fl(RatMul(photo.position.scale, Fl(<<9, 10>>)))
    IN  Zoom(IF RatLess(Fl(<<1, 10>>), scaled) THEN scaled ELSE Fl(<<1, 10>>))

\* part_001 lines 640-659: resetImage, which does nothing before the user's
\* image is stored, and the redraw.
ResetImage ==
    /\ compositor = "PhotoEditor"
    /\ frameLoad = "done"
    /\ LET at == InitialPosition(source[1], source[2])
       IN  /\ photo' = [photo EXCEPT !.position = at]
           /\ canvas' = Redraw(at)
    /\ UNCHANGED <<compositor, source, frameImage, frameLoad, isTypeSupported,
                   editor, evp, app, command>>
    /\ UNCHANGED <<ffVars, initCall, fbVars, vpVars, vfpVars, progress>>

\* onload of the frame image.  In PhotoEditor loadImages goes on (part_001
\* lines 542-566): it stores the images and the initial imagePosition, and
\* the effect of lines 572-576 draws the canvas.
FrameOnLoad ==
    /\ frameLoad = "pending"
    /\ frameLoad' = "done"
    /\ frameImage' = "loaded"
    /\ IF compositor = "PhotoEditor"
       THEN LET at == InitialPosition(source[1], source[2])
            IN  /\ photo' = [photo EXCEPT !.position = at]
                /\ canvas' = Compose("drawCanvas",
                                     PhotoRect(source[1], source[2], at),
                                     "loaded")
       ELSE UNCHANGED <<canvas, photo>>
    /\ UNCHANGED <<compositor, source, isTypeSupported, editor, evp, app, command>>
    /\ UNCHANGED <<ffVars, initCall, fbVars, vpVars, vfpVars, progress>>

\* onerror of the frame image: the Image that VideoFrameProcessor and
\* EnhancedVideoProcessor stored is broken now; the others stored nothing.
FrameOnError ==
    /\ frameLoad = "pending"
    /\ frameLoad' = "failed"
    /\ frameImage' = IF compositor \in EagerFrameImage THEN "broken" ELSE "null"
    /\ UNCHANGED <<compositor, source, canvas, isTypeSupported, appVars>>
    /\ UNCHANGED <<ffVars, initCall, fbVars, vpVars, vfpVars, progress>>

\* part_002 lines 35-81, part_004 lines 108-157: processFrame(video).
ProcessFrame ==
    /\ compositor \in EagerFrameImage
    /\ source # <<0, 0>>
    /\ canvas' = Compose("processFrame", FillRect(source[1], source[2]),
                         frameImage)
    /\ UNCHANGED <<compositor, source, frameImage, frameLoad, isTypeSupported, appVars>>
    /\ UNCHANGED <<ffVars, initCall, fbVars, vpVars, vfpVars, progress>>

\* umd lines 567-604: one frame of the FallbackVideoProcessor frame loop.
FBDrawFrame ==
    /\ compositor = "FallbackVideoProcessor"
    /\ source # <<0, 0>>
    /\ canvas' = Compose("processFrames",
                         FillRect(OrDefault(source[1], DefaultVideoWidth),
                                  OrDefault(source[2], DefaultVideoHeight)),
                         frameImage)
    /\ UNCHANGED <<compositor, source, frameImage, frameLoad, isTypeSupported, appVars>>
    /\ UNCHANGED <<ffVars, initCall, fbVars, vpVars, vfpVars, progress>>

\* part_001 lines 143-149, 181-186: the 'play' handler and the animation
\* loop of VideoEditor draw only while frameImageLoaded.
Animate ==
    /\ compositor = "VideoEditor"
    /\ source # <<0, 0>>
    /\ canvas' = IF frameLoad = "done"
                 THEN DrawFrameResult(source[1], source[2])
                 ELSE Skipped("drawFrame")
    /\ UNCHANGED <<compositor, source, frameImage, frameLoad, isTypeSupported, appVars>>
    /\ UNCHANGED <<ffVars, initCall, fbVars, vpVars, vfpVars, progress>>

\* part_001 line 35-52: the sources the encoder is loaded from, in order.
EditorSources == 3

\* part_001 lines 18 and 22-85: ffmpegLoaded, and the sources that failed.
\* export: where processVideoWithFFmpeg is; fs: the files in the encoder's
\* virtual filesystem; exports: the exports started.
NoEditor == [ffmpegLoaded |-> FALSE, sourcesFailed |-> 0, refused |-> FALSE,
             isProcessing |-> FALSE, export |-> "none", fs |-> {},
             exports |-> 0]

\* part_001 lines 56-70: ffmpeg.load() from the next source succeeds.
EditorLoadSucceed ==
    /\ compositor = "VideoEditor"
    /\ ~editor.ffmpegLoaded
    /\ editor.sourcesFailed < EditorSources
    /\ editor' = [editor EXCEPT !.ffmpegLoaded = TRUE]
    /\ UNCHANGED <<compositor, source, frameImage, frameLoad, canvas,
                   isTypeSupported, evp, app, photo,
                   command>>
    /\ UNCHANGED <<ffVars, initCall, fbVars, vpVars, vfpVars, progress>>

\* part_001 lines 71-84: ffmpeg.load() from the next source fails; after the
\* last one the effect gives up with setFfmpegLoaded(false).
EditorLoadFail ==
    /\ compositor = "VideoEditor"
    /\ ~editor.ffmpegLoaded
    /\ editor.sourcesFailed < EditorSources
    /\ editor' = [editor EXCEPT !.sourcesFailed = @ + 1]
    /\ UNCHANGED <<compositor, source, frameImage, frameLoad, canvas,
                   isTypeSupported, evp, app, photo,
                   command>>
    /\ UNCHANGED <<ffVars, initCall, fbVars, vpVars, vfpVars, progress>>

\* part_001 lines 265-269 and 445-449: a download asked for while ffmpegLoaded
\* is false.  The button is disabled, and processVideoWithFFmpeg alerts and
\* returns: nothing is recorded or encoded.
DownloadRefused ==
    /\ compositor = "VideoEditor"
    /\ source # <<0, 0>>
    /\ ~editor.ffmpegLoaded
    /\ editor' = [editor EXCEPT !.refused = TRUE]
    /\ UNCHANGED <<compositor, source, frameImage, frameLoad, canvas,
                   isTypeSupported, evp, app, photo,
                   command>>
    /\ UNCHANGED <<ffVars, initCall, fbVars, vpVars, vfpVars, progress>>

\* part_001 lines 250-331: processVideoWithFFmpeg, with the encoder loaded.
\* Without a frame image createFrameOverlay returns null, frame.png is not
\* written, the command that reads it produces no output.mp4 and readFile
\* throws into the catch block.
Export ==
    /\ compositor = "VideoEditor"
    /\ source # <<0, 0>>
    /\ editor.ffmpegLoaded
    /\ canvas' = IF frameImage = "null"
                 THEN [Skipped("export") EXCEPT !.threw = TRUE]
                 ELSE Compose("export", ExportRect(source[1], source[2]),
                              frameImage)
    /\ UNCHANGED <<compositor, source, frameImage, frameLoad, isTypeSupported, appVars>>
    /\ UNCHANGED <<ffVars, initCall, fbVars, vpVars, vfpVars, progress>>

\* part_001 lines 486-515, 559-569: the effect that runs drawCanvas once
\* loadImages has finished; a failed frame image sets `error`, and the refs
\* stay null.
DrawCanvas ==
    /\ compositor = "PhotoEditor"
    /\ frameLoad \in {"done", "failed"}
    /\ canvas' = IF frameLoad = "done"
                 THEN Compose("drawCanvas",
                              PhotoRect(source[1], source[2], photo.position),
                              frameImage)
                 ELSE Skipped("drawCanvas")
    /\ UNCHANGED <<compositor, source, frameImage, frameLoad, isTypeSupported, appVars>>
    /\ UNCHANGED <<ffVars, initCall, fbVars, vpVars, vfpVars, progress>>

\* part_001 lines 616-624 and 751-755: downloadImage, whose button is
\* disabled while loading and after an error; the PNG of toDataURL has the
\* size of the canvas bitmap.
DownloadImage ==
    /\ compositor = "PhotoEditor"
    /\ frameLoad = "done"
    /\ photo' = [photo EXCEPT !.exported = <<canvas.width, canvas.height>>]
    /\ UNCHANGED <<compositor, source, frameImage, frameLoad, canvas,
                   isTypeSupported, editor, evp, app, command>>
    /\ UNCHANGED <<ffVars, initCall, fbVars, vpVars, vfpVars, progress>>

-----------------------------------------------------------------------------
(* FFmpegVideoProcessor: the command of _buildFFmpegCommand, in the ES
   module (part_003) and in the UMD script. *)

\* The two builds of FFmpegVideoProcessor: the ES module (part_003) and the
\* UMD script.
Builds == {"es", "umd"}

\* No build is loaded, no frame image, no command built.
NoCommand == [build |-> "none", frame |-> FALSE, format |-> "none",
              args |-> <<>>]

\* Array.prototype.join.
RECURSIVE Join(_, _)
Join(parts, sep) ==
    IF Len(parts) = 0 THEN ""
    ELSE IF Len(parts) = 1 THEN parts[1]
    ELSE parts[1] \o sep \o Join(Tail(parts), sep)

\* part_003 lines 257-262 and umd lines 318-323: the filter graph, for
\* targetWidth 1080 and targetHeight 1920.
FilterComplex(build) ==
    LET size == ToString(TargetWidth) \o ":" \o ToString(TargetHeight)
    IN  Join(<<"[0:v]scale=" \o size \o ":force_original_aspect_ratio=increase",
               "crop=" \o size \o "[scaled]",
               "[1:v]scale=" \o size \o "[frame]",
               IF build = "es" THEN "[scaled][frame]overlay=0:0[final]"
               ELSE "[scaled][frame]overlay=0:0:format=auto[final]">>, ",")

\* part_003 lines 247-299 and umd lines 308-369: _buildFFmpegCommand, where
\* frame says whether this.frameImage is set and framePng is the parameter
\* frameImage.
BuildFFmpegCommand(build, frame, inputVideo, framePng, outputVideo, format) ==
    LET size == ToString(TargetWidth) \o ":" \o ToString(TargetHeight)
        inputs ==
            IF frame
            THEN <<"-i", inputVideo, "-i", framePng,
                   "-filter_complex", FilterComplex(build),
                   "-map", "[final]", "-map", "0:a?">>
            ELSE <<"-i", inputVideo,
                   "-vf", "scale=" \o size
                          \o ":force_original_aspect_ratio=increase,crop="
                          \o size>>
        encoding ==
            IF build = "es"
            THEN IF format = "mp4"
                 THEN <<"-c:v", "libx264", "-preset", "medium", "-crf", "18",
                        "-c:a", "aac", "-b:a", "320k",
                        "-movflags", "+faststart">>
                 ELSE <<"-c:v", "libvpx-vp9", "-crf", "30", "-b:v", "0",
                        "-c:a", "libopus", "-b:a", "320k">>
            ELSE IF format = "mp4"
                 THEN <<"-c:v", "libx264", "-preset", "fast", "-crf", "20",
                        "-maxrate", "8M", "-bufsize", "16M",
                        "-c:a", "aac", "-b:a", "256k",
                        "-movflags", "+faststart", "-threads", "0">>
                 ELSE <<"-c:v", "libvpx-vp9", "-crf", "32", "-b:v", "0",
                        "-cpu-used", "4", "-row-mt", "1",
                        "-c:a", "libopus", "-b:a", "256k", "-threads", "0">>
        timestamps ==
            IF build = "es" THEN <<>>
            ELSE <<"-avoid_negative_ts", "make_zero", "-fflags", "+genpts">>
        output ==
            <<"-f", IF format = "mp4" THEN "mp4" ELSE "webm", "-y", outputVideo>>
    IN  inputs \o encoding \o timestamps \o output

\* tailwind.config.js lines 102-111, 'FFmpeg Command Structure': the
\* arguments after `ffmpeg`, as the shell splits them.
DocumentedCommand ==
    <<"-i", "input.mp4", "-i", "frame.png",
      "-filter_complex",
      "[0:v]scale=1080:1920:force_original_aspect_ratio=increase,crop=1080:1920[scaled];[1:v]scale=1080:1920[frame];[scaled][frame]overlay=0:0[final]",
      "-map", "[final]", "-map", "0:a?",
      "-c:v", "libx264", "-preset", "medium", "-crf", "18",
      "-c:a", "aac", "-b:a", "320k",
      "-movflags", "+faststart",
      "-f", "mp4", "-y", "output.mp4">>

-----------------------------------------------------------------------------
(* EnhancedVideoProcessor (part_004): initializeFFmpeg and the choice of the
   path in processVideo. *)

\* What one initializeFFmpeg() call is doing, and what it returned:
\* "undefined", "true" or "false".
NoEVPInit == [pc |-> "none", returned |-> "none"]
\* path: "ffmpeg" (processVideoWithFFmpeg) or "optimized"
\* (processVideoOptimized); loaded: ffmpegLoaded && useFFmpeg held when the
\* path was chosen.
NoEVPJob == [pc |-> "none", returned |-> "none", path |-> "none",
             loaded |-> FALSE]
\* Lines 8-15: the constructor.
\* One processVideoWithFFmpeg call: where it is, whether its progress
\* listener is registered with the encoder, and the listener's
\* progressReported (in percent).
NoEVPFF == [pc |-> "none", listener |-> FALSE, reported |-> 0]
NoEVP == [ffmpegLoaded |-> FALSE, useFFmpeg |-> TRUE, isProcessing |-> FALSE,
          init |-> [i \in Inits |-> NoEVPInit],
          job |-> [c \in Calls |-> NoEVPJob],
          ff |-> [c \in Calls |-> NoEVPFF]]

\* Everything but evp.
notEVP == <<ffVars, initCall, fbVars, vpVars, vfpVars, progress, compositor,
            source, frameImage, frameLoad, canvas, isTypeSupported, editor,
            photo, app, command>>

\* Lines 32-49: initializeFFmpeg up to its first await.  `return` without a
\* value when the instance is loaded already; the script and the core are
\* loaded otherwise.
InitializeFFmpegEntry(r) ==
    IF evp.ffmpegLoaded
    THEN [r EXCEPT !.pc = "returned", !.returned = "undefined"]
    ELSE [r EXCEPT !.pc = "loading"]

\* Lines 170-181: the path processVideo takes for what initializeFFmpeg
\* returned.
ChoosePath(e, r) ==
    [r EXCEPT !.pc = "chosen",
              !.loaded = e.ffmpegLoaded /\ e.useFFmpeg,
              !.path = IF e.useFFmpeg /\ r.returned = "true" /\ e.ffmpegLoaded
                       THEN "ffmpeg" ELSE "optimized"]

\* initializeFFmpeg() called by the client.
EVPInitializeFFmpeg(i) ==
    /\ evp.init[i].pc = "none"
    /\ IF i = 1 THEN TRUE ELSE evp.init[i - 1].pc # "none"
    /\ evp' = [evp EXCEPT !.init[i] = InitializeFFmpegEntry(@)]
    /\ UNCHANGED notEVP

\* Lines 50-54 for a client's call: ffmpeg.load() resolved.
EVPInitLoaded(i) ==
    /\ evp.init[i].pc = "loading"
    /\ evp' = [evp EXCEPT !.ffmpegLoaded = TRUE,
                          !.init[i] = [pc |-> "returned", returned |-> "true"]]
    /\ UNCHANGED notEVP

\* Lines 56-60 for a client's call: the script or the core failed to load.
EVPInitFailed(i) ==
    /\ evp.init[i].pc = "loading"
    /\ evp' = [evp EXCEPT !.useFFmpeg = FALSE,
                          !.init[i] = [pc |-> "returned", returned |-> "false"]]
    /\ UNCHANGED notEVP

\* Line 168: processVideo(video, onProgress, format) calls initializeFFmpeg
\* and awaits it.
EVPProcessVideo(c) ==
    /\ evp.job[c].pc = "none"
    /\ IF c = 1 THEN TRUE ELSE evp.job[c - 1].pc # "none"
    /\ evp' = [evp EXCEPT !.job[c] = InitializeFFmpegEntry(@)]
    /\ UNCHANGED notEVP

\* Lines 50-54 and 170-173: the job's load resolved, and processVideo goes on.
EVPJobLoaded(c) ==
    /\ evp.job[c].pc = "loading"
    /\ LET e == [evp EXCEPT !.ffmpegLoaded = TRUE]
       IN  evp' = [e EXCEPT !.job[c] =
                       ChoosePath(e, [@ EXCEPT !.returned = "true"])]
    /\ UNCHANGED notEVP

\* Lines 56-60 and 178-181: the job's load failed.
EVPJobLoadFailed(c) ==
    /\ evp.job[c].pc = "loading"
    /\ LET e == [evp EXCEPT !.useFFmpeg = FALSE]
       IN  evp' = [e EXCEPT !.job[c] =
                       ChoosePath(e, [@ EXCEPT !.returned = "false"])]
    /\ UNCHANGED notEVP

\* Lines 168-181: processVideo goes on after an initializeFFmpeg that
\* returned at once.
EVPJobContinue(c) ==
    /\ evp.job[c].pc = "returned"
    /\ evp' = [evp EXCEPT !.job[c] = ChoosePath(evp, @)]
    /\ UNCHANGED notEVP

\* Everything but evp and progress.
notEVPProgress == <<ffVars, initCall, fbVars, vpVars, vfpVars, compositor,
                    source, frameImage, frameLoad, canvas, isTypeSupported,
                    editor, photo, app, command>>

\* The progress values the encoder of an EnhancedVideoProcessor emits, in
\* percent.
EVPEncoderProgress == {30, 60}
\* Line 218: Math.min(progress, 0.95).
EVPProgressCap == 95
\* Line 219: a report every 5%.
EVPProgressStep == 5

\* Lines 192-196: processVideoWithFFmpeg(video, onProgress, format) called by
\* the client; it throws when a job is running and starts extracting the
\* video otherwise.
EVPProcessVideoWithFFmpeg(c) ==
    /\ evp.ff[c].pc = "none"
    /\ IF c = 1 THEN TRUE ELSE evp.ff[c - 1].pc # "none"
    /\ evp' = IF evp.isProcessing
              THEN [evp EXCEPT !.ff[c].pc = "rejected"]
              ELSE [evp EXCEPT !.isProcessing = TRUE, !.ff[c].pc = "writing"]
    /\ UNCHANGED <<notEVP>>

\* Lines 202-269: the inputs are written, the progress listener is
\* registered with the encoder and exec is called.  Without a loaded encoder
\* this.ffmpeg is null and writeFile throws (lines 286-290).
EVPFFWritten(c) ==
    /\ evp.ff[c].pc = "writing"
    /\ evp' = IF evp.ffmpegLoaded
              THEN [evp EXCEPT !.ff[c].pc = "exec", !.ff[c].listener = TRUE]
              ELSE [evp EXCEPT !.ff[c].pc = "failed", !.isProcessing = FALSE]
    /\ UNCHANGED <<notEVP>>

\* Lines 218-224 for one listener r and the progress v: whether it calls its
\* onProgress.
EVPListenerReports(r, v) ==
    r.listener /\ Min(v, EVPProgressCap) > r.reported + EVPProgressStep

\* Lines 217-225: the encoder emits progress while a command runs, and every
\* listener registered with it is called.
EVPFFProgress(v) ==
    /\ \E c \in Calls : evp.ff[c].pc = "exec"
    /\ \E c \in Calls : EVPListenerReports(evp.ff[c], v)
    /\ evp' = [evp EXCEPT !.ff = [c \in Calls |->
                  IF EVPListenerReports(evp.ff[c], v)
                  THEN [evp.ff[c] EXCEPT !.reported = Min(v, EVPProgressCap)]
                  ELSE evp.ff[c]]]
    /\ progress' = [c \in Calls |->
                      IF EVPListenerReports(evp.ff[c], v)
                      THEN Report(progress[c], Min(v, EVPProgressCap))
                      ELSE progress[c]]
    /\ UNCHANGED <<notEVPProgress>>

\* Line 269: exec resolved; readFile is awaited.
EVPFFExecResolved(c) ==
    /\ evp.ff[c].pc = "exec"
    /\ evp' = [evp EXCEPT !.ff[c].pc = "reading"]
    /\ UNCHANGED <<notEVP>>

\* Lines 272-284: the output is read, onProgress(1.0) is called and the job
\* resolves.
EVPFFReadResolved(c) ==
    /\ evp.ff[c].pc = "reading"
    /\ evp' = [evp EXCEPT !.ff[c].pc = "resolved", !.isProcessing = FALSE]
    /\ progress' = [progress EXCEPT ![c] = Report(@, ProgressOne)]
    /\ UNCHANGED <<notEVPProgress>>

\* Lines 286-290: an awaited step threw; the job rejects.
EVPFFFailed(c) ==
    /\ evp.ff[c].pc \in {"writing", "exec", "reading"}
    /\ evp' = [evp EXCEPT !.ff[c].pc = "failed", !.isProcessing = FALSE]
    /\ UNCHANGED <<notEVP>>

-----------------------------------------------------------------------------
(* VideoEditor (part_001): processVideoWithFFmpeg, the export. *)

MaxExports == 2

notEditor == <<ffVars, initCall, fbVars, vpVars, vfpVars, compositor, source,
               frameImage, frameLoad, canvas, isTypeSupported, evp, app,
               photo, command, progress>>

\* Lines 338-341: the finally block.
ExportFinally(ed, pc) == [ed EXCEPT !.export = pc, !.isProcessing = FALSE]

\* Lines 270-284 and 445-449: "Download Video HD" pressed while the encoder
\* is loaded and no export runs; the input video is fetched and written.
EditorDownload ==
    /\ compositor = "VideoEditor"
    /\ editor.ffmpegLoaded
    /\ ~editor.isProcessing
    /\ editor.exports < MaxExports
    /\ editor' = [editor EXCEPT !.isProcessing = TRUE, !.exports = @ + 1,
                                !.export = "writeInput"]
    /\ UNCHANGED <<notEditor>>

\* Lines 284-292 and 251-253: input.mp4 is written; the overlay is made and
\* written next when the frame image has loaded, and the encoder is run at
\* once (lines 295-313) when createFrameOverlay returned null.
EditorInputWritten ==
    /\ editor.export = "writeInput"
    /\ editor' = [editor EXCEPT !.fs = @ \cup {"input.mp4"},
                                !.export = IF frameImage = "loaded"
                                           THEN "writeFrame" ELSE "exec"]
    /\ UNCHANGED <<notEditor>>

\* Lines 290-313: frame.png is written and the encoder is run.
EditorFrameWritten ==
    /\ editor.export = "writeFrame"
    /\ editor' = [editor EXCEPT !.fs = @ \cup {"frame.png"},
                                !.export = "exec"]
    /\ UNCHANGED <<notEditor>>

\* Lines 313-317: exec resolved, with output.mp4 written or (the command
\* failed, as it does without frame.png) without it; readFile is called.
EditorExecResolved(wrote) ==
    /\ editor.export = "exec"
    /\ wrote => "frame.png" \in editor.fs
    /\ editor' = [editor EXCEPT !.fs = IF wrote THEN @ \cup {"output.mp4"}
                                                ELSE @,
                                !.export = "read"]
    /\ UNCHANGED <<notEditor>>

\* Lines 317-341: the output is read and downloaded, the three files are
\* deleted, and the finally block runs.
EditorReadResolved ==
    /\ editor.export = "read"
    /\ "output.mp4" \in editor.fs
    /\ editor' = ExportFinally(
                     [editor EXCEPT !.fs = @ \ {"input.mp4", "frame.png",
                                                 "output.mp4"}], "done")
    /\ UNCHANGED <<notEditor>>

\* Lines 334-341: an awaited step threw (fetchFile, writeFile, exec, or
\* readFile of a missing output.mp4); the catch block alerts and the finally
\* block runs.
EditorExportFailed ==
    /\ editor.export \in {"writeInput", "writeFrame", "exec", "read"}
    /\ editor' = ExportFinally(editor, "failed")
    /\ UNCHANGED <<notEditor>>

-----------------------------------------------------------------------------
(* App (src/src/App.jsx), FileUpload and CameraCapture *)

\* The media the user selects or captures in one session are numbered
\* 1..MaxMedia in the order of their selection; 0 is null.
MaxMedia == 4
Media == 1..MaxMedia

\* Lines 9-12: the state of App; readers: the FileReader loads in flight;
\* picked: how many media have been selected or captured.
NoApp == [selectedFile |-> 0, fileType |-> "null", showCamera |-> FALSE,
          editMode |-> FALSE, readers |-> {}, picked |-> 0]

\* Everything but app.
notApp == <<ffVars, initCall, fbVars, vpVars, vfpVars, compositor, source,
            frameImage, frameLoad, canvas, isTypeSupported, editor, evp,
            photo, command, progress>>

\* Lines 47, 93 and 102: what App renders.
WelcomeRendered(a) == ~a.editMode /\ ~a.showCamera
CameraRendered(a) == a.showCamera
EditorRendered(a) == a.editMode /\ a.selectedFile # 0

\* Lines 14-19.
HandleFileSelect_KeepCamera(a, file, type) ==
    [a EXCEPT !.selectedFile = file, !.fileType = type, !.editMode = TRUE]
HandleFileSelect(a, file, type) ==
    [a EXCEPT !.selectedFile = file, !.fileType = type, !.editMode = TRUE,
              !.showCamera = FALSE]

\* Lines 21-26.
HandleCameraCapture(a, imageSrc) ==
    [a EXCEPT !.selectedFile = imageSrc, !.fileType = "image",
              !.editMode = TRUE, !.showCamera = FALSE]

\* Lines 28-33.
ResetApp(a) ==
    [a EXCEPT !.selectedFile = 0, !.fileType = "null", !.editMode = FALSE,
              !.showCamera = FALSE]

\* FileUpload.jsx lines 7-23: the change event of the file input, for no
\* file, an image or a video.  An image is read by a FileReader first; the
\* URL of a video is handed over at once.
HandleFileChange(kind) ==
    /\ WelcomeRendered(app)
    /\ kind # "none" => app.picked < MaxMedia
    /\ LET file == app.picked + 1
       IN  app' = CASE kind = "none" -> app
                    [] kind = "image" ->
                         [app EXCEPT !.picked = file, !.readers = @ \cup {file}]
                    [] kind = "video" ->
                         HandleFileSelect([app EXCEPT !.picked = file],
                                          file, "video")
    /\ UNCHANGED <<notApp>>

\* FileUpload.jsx lines 15-17: reader.onload.
ReaderOnLoad(file) ==
    /\ file \in app.readers
    /\ app' = HandleFileSelect([app EXCEPT !.readers = @ \ {file}],
                               file, "image")
    /\ UNCHANGED <<notApp>>

\* The read failed: the reader has no onerror and nothing follows.
ReaderOnError(file) ==
    /\ file \in app.readers
    /\ app' = [app EXCEPT !.readers = @ \ {file}]
    /\ UNCHANGED <<notApp>>

\* Line 62: the button "Ambil Foto" of the welcome screen.
OpenCamera ==
    /\ WelcomeRendered(app)
    /\ app' = [app EXCEPT !.showCamera = TRUE]
    /\ UNCHANGED <<notApp>>

\* Line 97: onCancel.
CancelCamera ==
    /\ CameraRendered(app)
    /\ app' = [app EXCEPT !.showCamera = FALSE]
    /\ UNCHANGED <<notApp>>

\* CameraCapture.jsx lines 9-14: capture, getScreenshot() returning null
\* (got = FALSE) or an image.
Capture(got) ==
    /\ CameraRendered(app)
    /\ got => app.picked < MaxMedia
    /\ LET imageSrc == app.picked + 1
       IN  app' = IF got
                  THEN HandleCameraCapture([app EXCEPT !.picked = imageSrc],
                                           imageSrc)
                  ELSE app
    /\ UNCHANGED <<notApp>>

\* Lines 107, 117 and 122: "Kembali" and the editors' onReset.
Reset ==
    /\ EditorRendered(app)
    /\ app' = ResetApp(app)
    /\ UNCHANGED <<notApp>>

-----------------------------------------------------------------------------
(* Specifications *)

NoFF == [pc |-> "none", wait |-> "loaded", arrivedBusy |-> FALSE,
         checkedBusy |-> FALSE]
NoInit == [pc |-> "none", wait |-> "loaded", overlap |-> FALSE, result |-> FALSE]
\* The state after the constructors (lines 11-18, 402-405, 659-664).
Init ==
    /\ ffmpeg = "null"
    /\ isLoaded = FALSE
    /\ isProcessing = FALSE
    /\ loadingPromise = "null"
    /\ currentProgressCallback = 0
    /\ loadCount = 0
    /\ encoderProgress = 0
    /\ ff = [c \in Calls |-> NoFF]
    /\ initCall = [i \in Inits |-> NoInit]
    /\ fallbackIsProcessing = FALSE
    /\ fb = [c \in Calls |-> NoFB]
    /\ useFFmpeg = TRUE
    /\ vp = [j \in Calls |-> NoVP]
    /\ vfpIsProcessing = FALSE
    /\ vfp = [c \in Calls |-> NoVFP]
    /\ stopCalled = FALSE
    /\ compositor = "none"
    /\ source = <<0, 0>>
    /\ frameImage = "null"
    /\ frameLoad = "idle"
    /\ canvas = NoCanvas
    /\ isTypeSupported = WebMTypes
    /\ editor = NoEditor
    /\ evp = NoEVP
    /\ photo = NoPhoto
    /\ command = NoCommand
    /\ app = NoApp
    /\ progress = [j \in Calls |-> [last |-> NoProgress, ones |-> 0]]

NextFF ==
    \/ \E c \in Calls : FFProcessVideo(c)
    \/ \E c \in Calls : FFAdmit(c)
    \/ \E c \in Calls : FFAwaitResolved(c)
    \/ \E c \in Calls : FFReadResolved(c)
    \/ \E c \in Calls : FFReturn(c)
    \/ \E c \in Calls : FFAwaitRejected(c)
    \/ \E v \in EncoderProgress : FFProgressEvent(v)
    \/ \E i \in Inits : InitializeCall(i)
    \/ \E i \in Inits : InitializeReturn(i)
    \/ LoadSucceed
    \/ LoadFail
    \/ Terminate

\* One FFmpegVideoProcessor under any calls of initialize, processVideo and
\* terminate.
SpecFF == Init /\ [][NextFF]_vars

NextFB ==
    \/ \E c \in Calls : FBProcessVideo(c)
    \/ \E c \in Calls : FBLoaded(c)
    \/ \E c \in Calls : FBLoadError(c)
    \/ \E c \in Calls : FBPlayResolved(c)
    \/ \E c \in Calls : FBPlayRejected(c)
    \/ \E c \in Calls : FBAnimationFrame(c)
    \/ \E c \in Calls : FBVideoAdvance(c)
    \/ \E c \in Calls : FBEnded(c)
    \/ \E c \in Calls : FBTimer(c)
    \/ \E c \in Calls : FBRecorderStop(c)
    \/ \E c \in Calls : FBRecorderError(c)

\* One FallbackVideoProcessor under any calls of processVideo.
SpecFB == Init /\ [][NextFB]_vars

Next ==
    \/ \E i \in VPInits : VPInitialize(i)
    \/ \E i \in VPInits : VPInitializeReturn(i)
    \/ \E j \in Calls, fmt \in Formats : VPProcessVideo(j, fmt)
    \/ \E j \in Calls : VPAfterFirstFFmpeg(j)
    \/ \E j \in Calls : VPAfterSecondFFmpeg(j)
    \/ \E j \in Calls : VPAfterFallback(j)
    \/ LoadSucceed
    \/ LoadFail
    \/ \E c \in Calls : FFAdmit(c)
    \/ \E c \in Calls : FFAwaitResolved(c)
    \/ \E c \in Calls : FFReadResolved(c)
    \/ \E c \in Calls : FFReturn(c)
    \/ \E c \in Calls : FFAwaitRejected(c)
    \/ \E v \in EncoderProgress : FFProgressEvent(v)
    \/ \E c \in Calls : FBLoaded(c)
    \/ \E c \in Calls : FBLoadError(c)
    \/ \E c \in Calls : FBPlayResolved(c)
    \/ \E c \in Calls : FBPlayRejected(c)
    \/ \E c \in Calls : FBAnimationFrame(c)
    \/ \E c \in Calls : FBVideoAdvance(c)
    \/ \E c \in Calls : FBEnded(c)
    \/ \E c \in Calls : FBTimer(c)
    \/ \E c \in Calls : FBRecorderStop(c)
    \/ \E c \in Calls : FBRecorderError(c)

\* One VideoProcessor under any calls of initialize and processVideo.
Spec == Init /\ [][Next]_vars

\* processVideo called once initialize() has returned false.
VPProcessVideoNoEncoder(j, fmt) ==
    /\ ~useFFmpeg
    /\ VPProcessVideo(j, fmt)

NextNoEncoder ==
    \/ \E i \in VPInits : VPInitialize(i)
    \/ \E i \in VPInits : VPInitializeReturn(i)
    \/ LoadFail
    \/ \E j \in Calls, fmt \in Formats : VPProcessVideoNoEncoder(j, fmt)
    \/ \E j \in Calls : VPAfterFallback(j)
    \/ \E c \in Calls : FBLoaded(c)
    \/ \E c \in Calls : FBLoadError(c)
    \/ \E c \in Calls : FBPlayResolved(c)
    \/ \E c \in Calls : FBPlayRejected(c)
    \/ \E c \in Calls : FBAnimationFrame(c)
    \/ \E c \in Calls : FBVideoAdvance(c)
    \/ \E c \in Calls : FBEnded(c)
    \/ \E c \in Calls : FBTimer(c)
    \/ \E c \in Calls : FBRecorderStop(c)
    \/ \E c \in Calls : FBRecorderError(c)

\* The event loop runs every queued callback: animation frames, dispatched
\* events, timers and promise continuations.  Loading, playback and errors
\* are the environment's and are not forced.
FairNoEncoder ==
    /\ \A i \in VPInits : WF_vars(VPInitializeReturn(i))
    /\ \A c \in Calls :
        /\ WF_vars(FBAnimationFrame(c))
        /\ WF_vars(FBEnded(c))
        /\ WF_vars(FBTimer(c))
        /\ WF_vars(FBRecorderStop(c))
        /\ WF_vars(VPAfterFallback(c))

\* One VideoProcessor whose encoder failed to load, under any calls of
\* processVideo made after initialize() returned.
SpecNoEncoder == Init /\ [][NextNoEncoder]_vars /\ FairNoEncoder

NextVFP ==
    \/ \E c \in Calls, m \in Methods : VFPCall(c, m)
    \/ \E c \in Calls : VFPLoaded(c)
    \/ \E c \in Calls : VFPLoadError(c)
    \/ \E c \in Calls : VFPLoadedData(c)
    \/ \E c \in Calls : VFPPlayResolved(c)
    \/ \E c \in Calls : VFPPlayRejected(c)
    \/ \E c \in Calls : VFPAnimationFrame(c)
    \/ \E c \in Calls : VFPAdvance(c)
    \/ \E c \in Calls : VFPEnded(c)
    \/ \E c \in Calls : VFPTimer(c)
    \/ \E c \in Calls : VFPGuard(c)
    \/ \E c \in Calls : VFPRecorderStop(c)
    \/ \E c \in Calls : VFPRecorderError(c)
    \/ VFPStopProcessing

\* One VideoFrameProcessor under any calls of processVideo,
\* processVideoRealtime, processVideoSimple and stopProcessing.
SpecVFP == Init /\ [][NextVFP]_vars

\* The real-time capture jobs started so far, on either processor.
CaptureJobs ==
    Cardinality({c \in Calls : fb[c].promise # "none"})
        + Cardinality({c \in Calls : vfp[c].m # "none"})

CaptureFBProcessVideo(c) ==
    /\ CaptureJobs < MaxCalls
    /\ FBProcessVideo(c)

CaptureVFPCall(c, m) ==
    /\ CaptureJobs < MaxCalls
    /\ VFPCall(c, m)

NextCapture ==
    \/ \E c \in Calls : CaptureFBProcessVideo(c)
    \/ \E c \in Calls : FBLoaded(c)
    \/ \E c \in Calls : FBLoadError(c)
    \/ \E c \in Calls : FBPlayResolved(c)
    \/ \E c \in Calls : FBPlayRejected(c)
    \/ \E c \in Calls : FBAnimationFrame(c)
    \/ \E c \in Calls : FBVideoAdvance(c)
    \/ \E c \in Calls : FBEnded(c)
    \/ \E c \in Calls : FBTimer(c)
    \/ \E c \in Calls : FBRecorderStop(c)
    \/ \E c \in Calls : FBRecorderError(c)
    \/ \E c \in Calls, m \in Methods : CaptureVFPCall(c, m)
    \/ \E c \in Calls : VFPLoaded(c)
    \/ \E c \in Calls : VFPLoadError(c)
    \/ \E c \in Calls : VFPLoadedData(c)
    \/ \E c \in Calls : VFPPlayResolved(c)
    \/ \E c \in Calls : VFPPlayRejected(c)
    \/ \E c \in Calls : VFPAnimationFrame(c)
    \/ \E c \in Calls : VFPAdvance(c)
    \/ \E c \in Calls : VFPEnded(c)
    \/ \E c \in Calls : VFPTimer(c)
    \/ \E c \in Calls : VFPGuard(c)
    \/ \E c \in Calls : VFPRecorderStop(c)
    \/ \E c \in Calls : VFPRecorderError(c)
    \/ VFPStopProcessing

\* The real-time capture implementations side by side: one
\* FallbackVideoProcessor and one VideoFrameProcessor, under any MaxCalls
\* jobs between them.
SpecCapture == Init /\ [][NextCapture]_vars

\* The browser will throw while the audio of the video of fallback job c is
\* routed (captureStream of the video element, addTrack).
FBAudioThrows(c) ==
    /\ fb[c].video = "loading"
    /\ fb[c].audio = "none"
    /\ fb' = [fb EXCEPT ![c].audio = "throws"]
    /\ UNCHANGED <<ffVars, initCall, fallbackIsProcessing, vpVars, vfpVars,
                   uiVars, progress>>

\* The browser will throw while the audio of the video of
\* VideoFrameProcessor job c is routed (AudioContext,
\* createMediaElementSource, addTrack).
VFPAudioThrows(c) ==
    /\ vfp[c].video = "loading"
    /\ vfp[c].audio = "none"
    /\ vfp' = [vfp EXCEPT ![c].audio = "throws"]
    /\ UNCHANGED <<ffVars, initCall, fbVars, vpVars, vfpIsProcessing,
                   stopCalled, uiVars, progress>>

NextAudio ==
    \/ \E c \in Calls : FBAudioThrows(c)
    \/ \E c \in Calls : VFPAudioThrows(c)
    \/ \E c \in Calls : CaptureFBProcessVideo(c)
    \/ \E c \in Calls : FBLoaded(c)
    \/ \E c \in Calls : FBLoadError(c)
    \/ \E c \in Calls : FBPlayResolved(c)
    \/ \E c \in Calls : FBPlayRejected(c)
    \/ \E c \in Calls : FBAnimationFrame(c)
    \/ \E c \in Calls : FBVideoAdvance(c)
    \/ \E c \in Calls : FBEnded(c)
    \/ \E c \in Calls : FBTimer(c)
    \/ \E c \in Calls : FBRecorderStop(c)
    \/ \E c \in Calls : FBRecorderError(c)
    \/ \E c \in Calls, m \in Methods : CaptureVFPCall(c, m)
    \/ \E c \in Calls : VFPLoaded(c)
    \/ \E c \in Calls : VFPLoadError(c)
    \/ \E c \in Calls : VFPLoadedData(c)
    \/ \E c \in Calls : VFPPlayResolved(c)
    \/ \E c \in Calls : VFPPlayRejected(c)
    \/ \E c \in Calls : VFPAnimationFrame(c)
    \/ \E c \in Calls : VFPAdvance(c)
    \/ \E c \in Calls : VFPEnded(c)
    \/ \E c \in Calls : VFPTimer(c)
    \/ \E c \in Calls : VFPGuard(c)
    \/ \E c \in Calls : VFPRecorderStop(c)
    \/ \E c \in Calls : VFPRecorderError(c)
    \/ VFPStopProcessing

\* The real-time capture implementations in a browser whose audio routing
\* may throw.
SpecAudio == Init /\ [][NextAudio]_vars

\* The page loads one build of the library.
LoadBuild(b) ==
    /\ command.build = "none"
    /\ \A c \in Calls : ff[c].pc = "none"
    /\ command' = [command EXCEPT !.build = b]
    /\ UNCHANGED <<compositor, source, frameImage, frameLoad, canvas,
                   isTypeSupported, editor, evp, app, photo>>
    /\ UNCHANGED <<ffVars, initCall, fbVars, vpVars, vfpVars, progress>>

\* FFmpegVideoProcessor.loadFrame resolved (part_003 lines 84-95, umd lines
\* 86-97): this.frameImage is the blob.
CommandLoadFrame ==
    /\ command.build # "none"
    /\ ~command.frame
    /\ command' = [command EXCEPT !.frame = TRUE]
    /\ UNCHANGED <<compositor, source, frameImage, frameLoad, canvas,
                   isTypeSupported, editor, evp, app, photo>>
    /\ UNCHANGED <<ffVars, initCall, fbVars, vpVars, vfpVars, progress>>

\* FFAwaitResolved for a job whose outputFormat is fmt: after writeFile, the
\* job builds its command (umd lines 125-139, part_003 lines 117-131).
CommandFFAwaitResolved(c, fmt) ==
    /\ command.build # "none"
    /\ FFAwaitResolvedStep(c)
    /\ command' = IF ff[c].pc = "write"
                  THEN [command EXCEPT
                           !.format = fmt,
                           !.args = BuildFFmpegCommand(command.build,
                                        command.frame, "input.mp4", "frame.png",
                                        "output." \o fmt, fmt)]
                  ELSE command
    /\ UNCHANGED <<compositor, source, frameImage, frameLoad, canvas,
                   isTypeSupported, editor, evp, app, photo>>
    /\ UNCHANGED <<initCall, fbVars, vpVars, vfpVars, progress>>

NextCommand ==
    \/ \E b \in Builds : LoadBuild(b)
    \/ CommandLoadFrame
    \/ \E c \in Calls, fmt \in Formats : CommandFFAwaitResolved(c, fmt)
    \/ \E c \in Calls : FFProcessVideo(c)
    \/ \E c \in Calls : FFAdmit(c)
    \/ \E c \in Calls : FFReadResolved(c)
    \/ \E c \in Calls : FFReturn(c)
    \/ \E c \in Calls : FFAwaitRejected(c)
    \/ \E v \in EncoderProgress : FFProgressEvent(v)
    \/ \E i \in Inits : InitializeCall(i)
    \/ \E i \in Inits : InitializeReturn(i)
    \/ LoadSucceed
    \/ LoadFail
    \/ Terminate

\* One FFmpegVideoProcessor of either build, under any calls of initialize,
\* loadFrame, processVideo and terminate.
SpecCommand == Init /\ [][NextCommand]_vars

\* The page runs in a browser whose MediaRecorder supports the types s.
Browser(s) ==
    /\ isTypeSupported = WebMTypes
    /\ \A j \in Calls : vp[j].pc = "none" /\ fb[j].promise = "none"
    /\ isTypeSupported' = s
    /\ UNCHANGED <<compositor, source, frameImage, frameLoad, canvas, appVars>>
    /\ UNCHANGED <<ffVars, initCall, fbVars, vpVars, vfpVars, progress>>

\* processVideo called by a client that awaits each job before it requests
\* the next one.
FormatVPProcessVideo(j, fmt) ==
    /\ \A k \in Calls : vp[k].pc \notin VPUnsettled
    /\ VPProcessVideo(j, fmt)

NextFormat ==
    \/ \E s \in SUBSET WebMTypes : Browser(s)
    \/ \E i \in VPInits : VPInitialize(i)
    \/ \E i \in VPInits : VPInitializeReturn(i)
    \/ \E j \in Calls, fmt \in Formats : FormatVPProcessVideo(j, fmt)
    \/ \E j \in Calls : VPAfterFirstFFmpeg(j)
    \/ \E j \in Calls : VPAfterSecondFFmpeg(j)
    \/ \E j \in Calls : VPAfterFallback(j)
    \/ LoadSucceed
    \/ LoadFail
    \/ \E c \in Calls : FFAdmit(c)
    \/ \E c \in Calls : FFAwaitResolved(c)
    \/ \E c \in Calls : FFReadResolved(c)
    \/ \E c \in Calls : FFReturn(c)
    \/ \E c \in Calls : FFAwaitRejected(c)
    \/ \E v \in EncoderProgress : FFProgressEvent(v)
    \/ \E c \in Calls : FBLoaded(c)
    \/ \E c \in Calls : FBLoadError(c)
    \/ \E c \in Calls : FBPlayResolved(c)
    \/ \E c \in Calls : FBPlayRejected(c)
    \/ \E c \in Calls : FBAnimationFrame(c)
    \/ \E c \in Calls : FBVideoAdvance(c)
    \/ \E c \in Calls : FBEnded(c)
    \/ \E c \in Calls : FBTimer(c)
    \/ \E c \in Calls : FBRecorderStop(c)
    \/ \E c \in Calls : FBRecorderError(c)


\* The facade in any browser.
SpecFormat == Init /\ [][NextFormat]_vars

NextEVP ==
    \/ \E i \in Inits : EVPInitializeFFmpeg(i)
    \/ \E i \in Inits : EVPInitLoaded(i)
    \/ \E i \in Inits : EVPInitFailed(i)
    \/ \E c \in Calls : EVPProcessVideo(c)
    \/ \E c \in Calls : EVPJobLoaded(c)
    \/ \E c \in Calls : EVPJobLoadFailed(c)
    \/ \E c \in Calls : EVPJobContinue(c)

\* One EnhancedVideoProcessor under any calls of initializeFFmpeg and
\* processVideo.
SpecEVP == Init /\ [][NextEVP]_vars

NextEVPJob ==
    \/ \E i \in Inits : EVPInitializeFFmpeg(i)
    \/ \E i \in Inits : EVPInitLoaded(i)
    \/ \E i \in Inits : EVPInitFailed(i)
    \/ \E c \in Calls : EVPProcessVideoWithFFmpeg(c)
    \/ \E c \in Calls : EVPFFWritten(c)
    \/ \E v \in EVPEncoderProgress : EVPFFProgress(v)
    \/ \E c \in Calls : EVPFFExecResolved(c)
    \/ \E c \in Calls : EVPFFReadResolved(c)
    \/ \E c \in Calls : EVPFFFailed(c)

\* One EnhancedVideoProcessor under any calls of initializeFFmpeg and
\* processVideoWithFFmpeg.
SpecEVPJob == Init /\ [][NextEVPJob]_vars

NextExport ==
    \/ Construct("VideoEditor")
    \/ LoadFrame
    \/ FrameOnLoad
    \/ FrameOnError
    \/ EditorLoadSucceed
    \/ EditorLoadFail
    \/ EditorDownload
    \/ EditorInputWritten
    \/ EditorFrameWritten
    \/ \E wrote \in BOOLEAN : EditorExecResolved(wrote)
    \/ EditorReadResolved
    \/ EditorExportFailed

\* One VideoEditor: the loads of its encoder and of its frame image, and its
\* exports.
SpecExport == Init /\ [][NextExport]_vars

NextApp ==
    \/ \E kind \in {"none", "image", "video"} : HandleFileChange(kind)
    \/ \E file \in Media : ReaderOnLoad(file)
    \/ \E file \in Media : ReaderOnError(file)
    \/ OpenCamera
    \/ CancelCamera
    \/ \E got \in BOOLEAN : Capture(got)
    \/ Reset

\* One App under any file selections, camera captures, reader completions
\* and resets.
SpecApp == Init /\ [][NextApp]_vars

NextCompositor ==
    \/ \E k \in Compositors : Construct(k)
    \/ \E w \in Dims, h \in Dims : LoadedMetadata(w, h)
    \/ \E s \in 1..MaxSide : SquareImageLoaded(s)
    \/ LoadFrame
    \/ FrameOnLoad
    \/ FrameOnError
    \/ ProcessFrame
    \/ FBDrawFrame
    \/ Animate
    \/ Export
    \/ DrawCanvas
    \/ EditorLoadSucceed
    \/ EditorLoadFail
    \/ DownloadRefused
    \/ ZoomIn
    \/ ZoomOut
    \/ ResetImage
    \/ DownloadImage

\* One compositor, one source of any size in Dims x Dims, and one load of the
\* frame image.
SpecCompositor == Init /\ [][NextCompositor]_vars

-----------------------------------------------------------------------------
(* Claims *)

\* C1: a job requested on the facade while another job had not settled
\* starts no encoder run and no recording, does not resolve, and adds
\* nothing to what the earlier job's progress callback receives.
C1_SecondJobStartsNothing ==
    \A k \in Calls :
        vp[k].busyWith # {}
            => /\ ff[k].pc \notin (FFAccepted \cup {"resolved", "rejError"})
               /\ fb[k].rec = "none"
               /\ vp[k].pc # "resolved"

\* C2: the fallback's busy flag is true as long as an accepted job's promise
\* is pending.
C2_BusyUntilSettled ==
    \A c \in Calls : fb[c].promise = "pending" => fallbackIsProcessing

\* C3 as stated: a call that arrives while another call is between
\* acceptance and settlement is rejected with the busy error.
C3_ArrivedBusyIsRejected ==
    \A c \in Calls :
        (ff[c].arrivedBusy /\ ff[c].pc \notin {"none", "init"})
            => ff[c].pc = "rejBusy"

\* C3, amended: a call whose busy check runs while another call is between
\* acceptance and settlement is rejected with the busy error; at most one
\* call is between acceptance and settlement, and while one is, isProcessing
\* is true and currentProgressCallback is that job's callback, whatever
\* calls were rejected meanwhile.
C3_BusyCheckRejects ==
    /\ \A c \in Calls : ff[c].checkedBusy => ff[c].pc = "rejBusy"
    /\ Cardinality(ActiveFF) <= 1
    /\ \A c \in ActiveFF : isProcessing /\ currentProgressCallback = c

C3_Witness ==
    \E c, d \in Calls :
        /\ ff[c].pc = "rejBusy" /\ ff[c].checkedBusy
        /\ d \in ActiveFF /\ isProcessing /\ currentProgressCallback = d

\* C4: a real-time capture job that has resolved has called onProgress
\* with 1.0 exactly once.
C4_OneExactlyOnce ==
    \A c \in Calls : fb[c].promise = "resolved" => progress[c].ones = 1

\* C5: the values a job's onProgress receives never decrease.
C5_ProgressNonDecreasing ==
    [][\A j \in Calls : progress'[j].last >= progress[j].last]_vars

\* C6: a job attempts the FFmpeg tier at most once and the real-time tier
\* at most once.
C6_EachTierAtMostOnce ==
    \A j \in Calls : vp[j].ffAttempts <= 1 /\ vp[j].fbAttempts <= 1

\* C7: a job is rejected only when its fallback call was rejected, and a
\* job whose FFmpeg attempt failed has made a fallback attempt and settles
\* as that attempt does.
C7_OnlyFallbackRejects ==
    \A j \in Calls :
        /\ vp[j].pc = "rejected" => fb[j].promise = "rejected"
        /\ (vp[j].ffError # "none" /\ vp[j].pc \in {"resolved", "rejected"})
              => /\ vp[j].fbAttempts = 1
                 /\ vp[j].pc = fb[j].promise

\* C8 as stated: a job in which both tiers failed rejects with an error
\* that carries the FFmpeg failure and the fallback failure.
C8_AggregatedError ==
    \A j \in Calls :
        (vp[j].pc = "rejected" /\ vp[j].ffError # "none")
            => /\ vp[j].rejection.ffmpeg = vp[j].ffError
               /\ vp[j].rejection.fallback = fb[j].error

\* C8, amended: a job in which both tiers failed rejects with the
\* fallback's error alone; the FFmpeg failure is not part of it.
C8_FallbackErrorOnly ==
    \A j \in Calls :
        (vp[j].pc = "rejected" /\ vp[j].ffError # "none")
            => /\ vp[j].rejection.ffmpeg = "none"
               /\ vp[j].rejection.fallback = fb[j].error
               /\ fb[j].error # "none"

C8_Witness ==
    \E j \in Calls :
        /\ vp[j].pc = "rejected"
        /\ vp[j].ffError = "rejError"
        /\ vp[j].rejection.fallback = "recorder"

\* C9 as stated, in the form a finite run refutes: with the encoder
\* unavailable, a job whose video played to its end is not rejected.
C9_PlayedToEndNotRejected ==
    \A j \in Calls :
        (~useFFmpeg /\ fb[j].video = "ended") => vp[j].pc # "rejected"

\* C9, amended: with the encoder unavailable no job invokes the FFmpeg
\* processor; a job that resolves played its video to the end on the
\* real-time path and reported 1.0; and a job whose video played to its end
\* reports 1.0 and resolves, unless its recorder reported an error.
C9_RealTimeCompletes ==
    /\ [](\A j \in Calls : vp[j].ffAttempts = 0 /\ ff[j].pc = "none")
    /\ [](\A j \in Calls : vp[j].pc = "resolved" =>
              /\ fb[j].video = "ended"
              /\ progress[j].ones >= 1)
    /\ \A j \in Calls :
          (fb[j].video = "ended") ~> (progress[j].ones >= 1)
    /\ \A j \in Calls :
          (fb[j].video = "ended")
              ~> (vp[j].pc = "resolved" \/ fb[j].error = "recorder")

C9_Witness ==
    \E j \in Calls :
        /\ ~useFFmpeg
        /\ vp[j].pc = "resolved"
        /\ vp[j].ffAttempts = 0
        /\ fb[j].video = "ended"
        /\ progress[j].ones >= 1

\* C10: _loadFFmpeg is started at most once, and an initialize() call made
\* while the load was in flight returns the result of that load.
C10_LoadOnce ==
    /\ loadCount <= 1
    /\ \A i \in Inits :
        (initCall[i].pc = "returned" /\ initCall[i].overlap)
            => initCall[i].result = (loadingPromise = "true")

C10_Witness ==
    \E i, k \in Inits :
        /\ i # k
        /\ initCall[i].pc = "returned" /\ initCall[i].overlap
        /\ initCall[k].pc = "returned"
        /\ loadCount = 1
        /\ \E c \in Calls : ff[c].pc \in FFSettled

\* C11: initialize() returns true only when the encoder is loaded, and
\* processVideo accepts a job (and goes on to writeFile, exec and readFile)
\* only when the encoder is loaded.
C11_TrueOnlyWhenReady ==
    [][/\ \A i \in Inits :
            (initCall[i].pc = "await" /\ initCall'[i].pc = "returned"
                /\ initCall'[i].result) => isLoaded'
       /\ \A c \in Calls :
            (ff[c].pc = "init" /\ ff'[c].pc = "extract") => isLoaded'
      ]_vars

\* C12: on one VideoFrameProcessor at most one job has its frame loop
\* scheduled or its recorder recording.
C12_OneActiveJob ==
    Cardinality({c \in Calls : vfp[c].loop \/ vfp[c].rec = "recording"}) <= 1

\* C13: a fallback job whose playback has started is eventually stopped
\* and finalized (its promise settles), also when playback stalls before
\* the end of the video.
C13_StalledJobIsFinalized ==
    \A c \in Calls :
        (fb[c].video = "playing") ~> (fb[c].promise \in {"resolved", "rejected"})

\* C14 as stated: a job whose recorder the timeout guard stopped is not
\* rejected; its 'stop' event is queued and then its promise is resolved.
C14_TimeoutIsSuccess ==
    \A c \in Calls :
        vfp[c].stoppedBy = "guard" =>
            /\ vfp[c].promise \in {"pending", "resolved"}
            /\ vfp[c].promise = "pending" => vfp[c].stopEvt

\* C14, amended: the guard is armed only on a pending job whose recorder is
\* recording; it stops the recorder, and the job then resolves when the
\* 'stop' event is handled, unless the play() call of processVideoRealtime,
\* still pending, is rejected before that: the only rejection of a job the
\* guard stopped is that of its play().
C14_TimeoutResolvesUnlessPlayFails ==
    \A c \in Calls :
        /\ vfp[c].guard => vfp[c].rec = "recording" /\ vfp[c].promise = "pending"
        /\ vfp[c].stoppedBy = "guard" =>
              /\ vfp[c].m \in {"video", "realtime"}
              /\ vfp[c].rec = "inactive"
              /\ vfp[c].promise \in {"pending", "resolved", "rejected"}
              /\ vfp[c].promise = "pending" => vfp[c].stopEvt
              /\ vfp[c].promise = "rejected" =>
                    vfp[c].m = "realtime" /\ vfp[c].error = "play"

C14_Witness ==
    \E c, d \in Calls :
        /\ vfp[c].m = "video" /\ vfp[d].m = "realtime"
        /\ vfp[c].stoppedBy = "guard" /\ vfp[c].promise = "resolved"
        /\ vfp[d].stoppedBy = "guard" /\ vfp[d].promise = "resolved"
        /\ vfp[d].early

FBStopsEarly(c) ==
    /\ fb[c].rec = "recording"
    /\ fb'[c].rec = "inactive"
    /\ ~StopCondition(fb'[c])

\* The recorder of VideoFrameProcessor job c stops in this step before the
\* stop condition holds.
VFPStopsEarly(c) ==
    /\ vfp[c].rec = "recording"
    /\ vfp'[c].rec = "inactive"
    /\ vfp'[c].early

Covers(r) ==
    /\ RatLeq(r.offsetX, Whole(0))
    /\ RatLeq(r.offsetY, Whole(0))
    /\ RatLeq(Whole(TargetWidth), RatAdd(r.offsetX, r.drawWidth))
    /\ RatLeq(Whole(TargetHeight), RatAdd(r.offsetY, r.drawHeight))

\* The rectangle r is centred on the canvas: one offset is 0 and the other
\* is (target - drawn) / 2.
Centred(r) ==
    /\ RatEq(r.offsetX, Whole(0)) \/ RatEq(r.offsetY, Whole(0))
    /\ RatEq(RatAdd(RatAdd(r.offsetX, r.offsetX), r.drawWidth),
             Whole(TargetWidth))
    /\ RatEq(RatAdd(RatAdd(r.offsetY, r.offsetY), r.drawHeight),
             Whole(TargetHeight))

\* drawWidth x sourceHeight = drawHeight x sourceWidth.
KeepsAspect(r, w, h) ==
    RatEq(<<r.drawWidth[1] * h, r.drawWidth[2]>>,
          <<r.drawHeight[1] * w, r.drawHeight[2]>>)

\* drawWidth x sourceHeight and drawHeight x sourceWidth differ by less than
\* 2^-(MantissaBits - 2) of their value: the rounding of the two operations
\* that compute the scaled side.
KeepsAspectRounded(r, w, h) ==
    LET a == <<r.drawWidth[1] * h, r.drawWidth[2]>>
        b == <<r.drawHeight[1] * w, r.drawHeight[2]>>
        d == RatSub(a, b)
    IN  RatLess(<<Abs(d[1]) * Pow2(MantissaBits - 2), d[2]>>, b)

\* C17 as stated: for every source width and height in Dims, the rectangle
\* computed by VideoFrameProcessor.processFrame, EnhancedVideoProcessor
\* .processFrame and the FallbackVideoProcessor frame loop contains the whole
\* 1080x1920 canvas, is centred on it with offsets <= 0, and satisfies
\* drawWidth x sourceHeight = drawHeight x sourceWidth.
C17_FillCoversCanvas ==
    canvas.by \in {"processFrame", "processFrames"}
        => /\ Covers(canvas.rect)
           /\ Centred(canvas.rect)
           /\ KeepsAspect(canvas.rect, source[1], source[2])

\* C17, amended: the rectangle contains the whole canvas and is centred on
\* it, and drawWidth x sourceHeight equals drawHeight x sourceWidth up to the
\* rounding of the floating-point operations that compute it.
C17_FillCoversCanvasUpToRounding ==
    canvas.by \in {"processFrame", "processFrames"}
        => /\ Covers(canvas.rect)
           /\ Centred(canvas.rect)
           /\ KeepsAspectRounded(canvas.rect, source[1], source[2])

\* A library compositor has drawn a source wider than the canvas, cropped
\* at its sides, whose scaled width was rounded.
C17_Witness ==
    /\ canvas.by \in {"processFrame", "processFrames"}
    /\ RatLess(canvas.rect.offsetX, Whole(0))
    /\ ~KeepsAspect(canvas.rect, source[1], source[2])

\* The rectangle r lies inside the canvas.
Inside(r) ==
    /\ RatLeq(Whole(0), r.offsetX)
    /\ RatLeq(Whole(0), r.offsetY)
    /\ RatLeq(RatAdd(r.offsetX, r.drawWidth), Whole(TargetWidth))
    /\ RatLeq(RatAdd(r.offsetY, r.drawHeight), Whole(TargetHeight))

\* The rectangle r spans the canvas in one dimension.
Spans(r) ==
    \/ RatEq(r.drawWidth, Whole(TargetWidth))
    \/ RatEq(r.drawHeight, Whole(TargetHeight))

\* The two margins of r differ by at most 3 pixels in each dimension: the
\* rounding of the preview's offsets and of the export's whole-pixel sizes
\* and chroma-aligned offsets.
NearlyCentred(r) ==
    LET mx == RatSub(RatAdd(RatAdd(r.offsetX, r.offsetX), r.drawWidth),
                     Whole(TargetWidth))
        my == RatSub(RatAdd(RatAdd(r.offsetY, r.offsetY), r.drawHeight),
                     Whole(TargetHeight))
    IN  /\ RatLeq(<<Abs(mx[1]), mx[2]>>, Whole(3))
        /\ RatLeq(<<Abs(my[1]), my[2]>>, Whole(3))

C19_MissingOverlayIsSkipped ==
    [][(frameLoad = "failed" /\ canvas' # canvas)
          => /\ canvas'.video
             /\ ~canvas'.overlay
             /\ ~canvas'.threw]_vars

\* C20: whenever a facade job requested with format 'mp4' is completed by the
\* real-time fallback, the job resolves and the type of the blob it returns
\* is a video/webm type, whatever types the recorder supports.
C20_FallbackResolvesWebM ==
    \A j \in Calls :
        (/\ vp[j].format = "mp4"
         /\ vp[j].pc \in {"resolved", "rejected"}
         /\ fb[j].promise = "resolved")
            => /\ vp[j].pc = "resolved"
               /\ vp[j].resultType \in WebMTypes \cup {"video/webm"}
               /\ vp[j].resultType = SelectMimeType(isTypeSupported)

\* An mp4 job whose encoder run failed was completed by the fallback in a
\* browser without VP9, and returned a VP8 WebM blob.
C20_Witness ==
    \E j \in Calls :
        /\ vp[j].format = "mp4"
        /\ vp[j].ffAttempts > 0
        /\ vp[j].pc = "resolved"
        /\ fb[j].promise = "resolved"
        /\ vp[j].resultType = "video/webm;codecs=vp8,opus"

\* No source of the encoder could be loaded.
EncoderUnavailable ==
    ~editor.ffmpegLoaded /\ editor.sourcesFailed = EditorSources

\* C21: in VideoEditor, a download asked for when the encoder could not be
\* loaded from any of its sources is not refused: it produces an output.
C21_DownloadWithoutEncoder ==
    [][(EncoderUnavailable /\ (\/ editor'.refused # editor.refused
                               \/ (canvas' # canvas /\ canvas'.by = "export")))
          => /\ ~editor'.refused
             /\ canvas'.by = "export"
             /\ canvas'.video]_vars

\* C22: every EnhancedVideoProcessor job whose path is chosen while FFmpeg
\* is loaded and useFFmpeg is true takes the FFmpeg path, the first job of
\* the instance and every later one.
C22_LoadedTakesFFmpeg ==
    \A c \in Calls :
        (evp.job[c].pc = "chosen" /\ evp.job[c].loaded)
            => evp.job[c].path = "ffmpeg"

\* The canvas shows a square image in the layout of loadImages or
\* resetImage.
SquareLayoutDrawn ==
    /\ compositor = "PhotoEditor"
    /\ canvas.by = "drawCanvas"
    /\ canvas.video
    /\ source[1] = source[2]
    /\ photo.position = InitialPosition(source[1], source[2])

\* The image top is as far from the canvas top as the image bottom is from
\* the canvas bottom.
SameMargins(r) ==
    RatEq(r.offsetY,
          RatSub(Whole(TargetHeight), RatAdd(r.offsetY, r.drawHeight)))

\* a is within 2^-(MantissaBits - 2) of b, relative to b: the rounding of
\* the two operations that compute a scaled side.
Rounded(a, b) ==
    LET d == RatSub(a, b)
    IN  RatLess(<<Abs(d[1]) * Pow2(MantissaBits - 2), d[2]>>, b)

\* C23 as stated: for a square image of any side, the layout after
\* loadImages and after resetImage draws it 1080 wide and 1080 high, with
\* equal distances above and below.
C23_SquareIs1080 ==
    SquareLayoutDrawn
        => /\ RatEq(canvas.rect.drawWidth, Whole(TargetWidth))
           /\ RatEq(canvas.rect.drawHeight, Whole(TargetWidth))
           /\ SameMargins(canvas.rect)

\* C23, amended: the drawn width and height are equal, and are 1080 up to
\* the rounding of floating-point arithmetic; the distances above and below
\* are equal.
C23_SquareIs1080UpToRounding ==
    SquareLayoutDrawn
        => /\ Rounded(canvas.rect.drawWidth, Whole(TargetWidth))
           /\ RatEq(canvas.rect.drawHeight, canvas.rect.drawWidth)
           /\ SameMargins(canvas.rect)

\* A square image drawn in the layout of loadImages or resetImage after a
\* zoom button was used, with a width the rounding has moved off 1080.
C23_Witness ==
    /\ SquareLayoutDrawn
    /\ photo.zooms > 0
    /\ ~RatEq(canvas.rect.drawWidth, Whole(TargetWidth))

\* C24: whenever PhotoEditor, VideoFrameProcessor or FallbackVideoProcessor
\* has composited, the canvas is 1080 wide and 1920 high, and an image that
\* PhotoEditor exported is 1080x1920.
C24_RenderTargetIs1080x1920 ==
    /\ (/\ compositor \in {"PhotoEditor", "VideoFrameProcessor",
                           "FallbackVideoProcessor"}
        /\ canvas.by # "none")
           => canvas.width = TargetWidth /\ canvas.height = TargetHeight
    /\ photo.exported # <<0, 0>>
           => photo.exported = <<TargetWidth, TargetHeight>>

\* PhotoEditor exported its canvas after it drew the image and the overlay.
C24_Witness ==
    /\ compositor = "PhotoEditor"
    /\ canvas.by = "drawCanvas"
    /\ canvas.overlay
    /\ photo.exported = <<canvas.width, canvas.height>>

C26_CommandIsDocumented ==
    (command.args # <<>> /\ command.format = "mp4" /\ command.frame)
        => command.args = DocumentedCommand

\* C27 as stated: the step that settles a VideoFrameProcessor job
\* (resolves it, or rejects it after it was accepted) leaves isProcessing
\* false, so that the next call is accepted.
C27_SettledClearsBusy ==
    [][\A c \in Calls :
          (vfp[c].promise = "pending" /\ vfp'[c].promise # "pending")
              => ~vfpIsProcessing']_vars

\* C28 as stated: in every real-time capture job, MediaRecorder.stop() is
\* called at most once.
C28_StopRequestedOnce ==
    \A c \in Calls : fb[c].stops <= 1 /\ vfp[c].stops <= 1

\* C29 as stated: once a FallbackVideoProcessor.processVideo job has
\* settled, its processing video is no longer in the document and its
\* recorder is not recording.
C29_SettledIsCleanedUp ==
    \A c \in Calls :
        fb[c].promise \in {"resolved", "rejected"}
            => ~fb[c].inDom /\ fb[c].rec # "recording"

\* C30 as stated: a processVideo job whose video loaded, and for which
\* 'loadeddata' was not dispatched a second time (the listener of line 298
\* is still waiting), has composited a frame when its promise is resolved.
C30_LoopStartsAfterLoad ==
    \A c \in Calls :
        (vfp[c].m = "video" /\ vfp[c].promise = "resolved" /\ vfp[c].listening)
            => vfp[c].drew

\* processVideoWithFFmpeg call c has settled.
EVPFFSettled(c) == evp.ff[c].pc \in {"resolved", "failed", "rejected"}

\* C31: once a processVideoWithFFmpeg job has settled, its onProgress is
\* never invoked again, whatever later jobs and progress events follow.
C31_SettledJobHearsNothing ==
    [][\A c \in Calls : EVPFFSettled(c) => progress'[c] = progress[c]]_vars

\* initialize() call i returns in this step.
VPInitializeReturns(i) ==
    initCall[i].pc = "await" /\ initCall'[i].pc = "returned"

\* C32: useFFmpeg changes only when a VideoProcessor.initialize() call
\* returns, and only to false; no step of processVideo changes it, so a job
\* requested while the encoder is ready attempts the FFmpeg tier, whatever
\* happened to the FFmpeg attempts of earlier jobs.
C32_OnlyInitializeDisables ==
    [][/\ useFFmpeg' # useFFmpeg
            => ~useFFmpeg' /\ \E i \in VPInits : VPInitializeReturns(i)
       /\ \A j \in Calls :
            (vp[j].pc = "none" /\ vp'[j].pc # "none" /\ isLoaded)
                => vp'[j].ffAttempts = 1]_vars

\* The FFmpeg attempt of job 1 failed and the job has settled through the
\* fallback; job 2, requested afterwards, attempted the FFmpeg tier.
C32_Witness ==
    /\ MaxCalls >= 2
    /\ vp[1].ffError # "none"
    /\ vp[1].pc \in {"resolved", "rejected"}
    /\ vp[2].busyWith = {}
    /\ vp[2].ffAttempts >= 1
    /\ useFFmpeg

\* C33: while App is in edit mode, selectedFile and fileType change only by
\* resetApp; no FileReader load begun by an earlier selection replaces the
\* media being edited.
C33_EditedMediaChangesOnlyByReset ==
    [][(app.editMode
          /\ <<app'.selectedFile, app'.fileType>>
                 # <<app.selectedFile, app.fileType>>)
         => app' = [ResetApp(app) EXCEPT !.readers = app'.readers]]_vars

\* How many of the three screens App renders.
ScreensRendered(a) ==
    Cardinality({k \in {"welcome", "camera", "editor"} :
        \/ k = "welcome" /\ WelcomeRendered(a)
        \/ k = "camera" /\ CameraRendered(a)
        \/ k = "editor" /\ EditorRendered(a)})

\* C34: App always renders exactly one of the welcome screen, the camera and
\* the editor; showCamera and editMode are never both true, and editMode
\* implies a selectedFile that is not null.
C34_OneScreen ==
    /\ ScreensRendered(app) = 1
    /\ ~(app.showCamera /\ app.editMode)
    /\ app.editMode => app.selectedFile # 0

\* The editor shows an image a FileReader delivered after a later pick was
\* made, and another load is still in flight.
C34_Witness ==
    /\ EditorRendered(app)
    /\ app.fileType = "image"
    /\ app.selectedFile < app.picked
    /\ app.readers # {}

\* C35: after an export of VideoEditor has finished, with success or with a
\* failure at any step, the encoder's filesystem holds none of input.mp4,
\* frame.png and output.mp4.
C35_FinishedExportLeavesNoFiles ==
    editor.export \in {"done", "failed"}
        => editor.fs \cap {"input.mp4", "frame.png", "output.mp4"} = {}

\* C36: from every scale reachable from the initial layout of an image by
\* zoomIn, zoomOut and resetImage, zoomIn does not decrease the scale and
\* zoomOut does not increase it.
C36_ZoomIsMonotonic ==
    [][/\ ZoomIn => RatLeq(photo.position.scale, photo'.position.scale)
       /\ ZoomOut => RatLeq(photo'.position.scale, photo.position.scale)]_vars

\* C37: right after zoomIn or zoomOut the scale lies in [0.1, 3], whatever
\* it was before.
C37_ZoomedScaleInRange ==
    [][(ZoomIn \/ ZoomOut)
          => /\ RatLeq(Fl(<<1, 10>>), photo'.position.scale)
             /\ RatLeq(photo'.position.scale, Whole(3))]_vars
====
